---- MODULE Spec2Model ----
(***************************************************************************)
(* Fantasy-football auto-draft pick selection (gauglertodd/ffdraft).        *)
(*                                                                         *)
(* The repository holds two copies of the selection logic: the browser     *)
(* copy (src/ff-rankings-app/public) and the server copy                   *)
(* (src/auto-draft-backend).  Definitions keep the source's names; where   *)
(* the two copies define the same name with different code, the server     *)
(* copy's definition carries the prefix Api_.                              *)
(*                                                                         *)
(* Numbers: ranks, tiers and ids are integers.  Probabilities and the      *)
(* variability level are kept as exact integers (hundredths); no operator  *)
(* below rounds.                                                           *)
(***************************************************************************)
EXTENDS Integers, Sequences, FiniteSets, TLC

VARIABLES
    team_roster,        \* the TeamRoster handed to the operation
    available_players,  \* the caller's list of available (undrafted) players
    call,               \* the last operation applied: its name, arguments, result
    teams_data,         \* the caller's teams: team id -> roster (simulator, estimator)
    sim                 \* the locals of the running simulate_draft_until_my_turn

vars == <<team_roster, available_players, call, teams_data, sim>>

\* no simulation is running
NoSim == [pc |-> "idle"]

(***************************************************************************)
(* Data model: Position, Player, RosterSlot, TeamRoster                    *)
(***************************************************************************)

\* class Position(str, Enum)
Position == {"QB", "RB", "WR", "TE", "FLEX", "DST", "K", "BENCH"}

\* the positions a Player can have (the six the need-priority loop walks)
PlayerPositions == <<"QB", "RB", "WR", "TE", "DST", "K">>

\* Python's None for an Optional[int] result (player ids are >= 1)
None == -1

\* Python's None for Player.tier (tiers are >= 1)
NoTier == 0

\* Python's None for RosterSlot.player
NoPlayer == [id |-> None, position |-> "", rank |-> 0, tier |-> NoTier]

\* class Player: the fields the selection logic reads
Player(id, position, rank, tier) ==
    [id |-> id, position |-> position, rank |-> rank, tier |-> tier]

\* class RosterSlot
RosterSlot(position, player, is_filled) ==
    [position |-> position, player |-> player, is_filled |-> is_filled]

Range(s) == {s[i] : i \in DOMAIN s}

\* Python's [x] * n
Repeat(x, n) == [i \in 1..n |-> x]

Min(a, b) == IF a <= b THEN a ELSE b

\* Python's truth value of an Optional[int]: None and 0 are falsy
Truthy(x) == x # None /\ x # 0

(***************************************************************************)
(* TeamRoster queries.  A roster is its roster_slots list.                 *)
(***************************************************************************)

get_empty_slots(roster) ==
    SelectSeq(roster, LAMBDA slot : ~slot.is_filled)

get_empty_slots_by_position(roster, position) ==
    SelectSeq(roster, LAMBDA slot : slot.position = position /\ ~slot.is_filled)

get_filled_slots_by_position(roster, position) ==
    SelectSeq(roster, LAMBDA slot : slot.position = position /\ slot.is_filled)

can_fill_position(roster, position) ==
    IF Len(get_empty_slots_by_position(roster, position)) > 0
    THEN TRUE
    ELSE IF position \in {"RB", "WR", "TE"}
         THEN Len(get_empty_slots_by_position(roster, "FLEX")) > 0
         ELSE Len(get_empty_slots_by_position(roster, "BENCH")) > 0

get_position_need_priority(roster) ==
    [pos \in Range(PlayerPositions) |->
        LET empty_slots == Len(get_empty_slots_by_position(roster, pos))
        IN  IF pos \in {"RB", "WR", "TE"} /\ empty_slots = 0
            THEN Len(get_empty_slots_by_position(roster, "FLEX")) * 5
            ELSE empty_slots * 10]

count_position(roster, position) ==
    Len(get_filled_slots_by_position(roster, position))
    + Len(SelectSeq(get_filled_slots_by_position(roster, "FLEX"),
                    LAMBDA slot : slot.player # NoPlayer
                                  /\ slot.player.position = position))
    + Len(SelectSeq(get_filled_slots_by_position(roster, "BENCH"),
                    LAMBDA slot : slot.player # NoPlayer
                                  /\ slot.player.position = position))

total_filled_slots(roster) ==
    Len(SelectSeq(roster, LAMBDA slot : slot.is_filled))

total_roster_slots(roster) == Len(roster)

get_round_number(roster) == total_filled_slots(roster) + 1

needs_dst_or_k(roster) ==
    IF total_filled_slots(roster) < total_roster_slots(roster) - 2
    THEN FALSE
    ELSE \/ count_position(roster, "DST") = 0 /\ can_fill_position(roster, "DST")
         \/ count_position(roster, "K") = 0 /\ can_fill_position(roster, "K")

\* the test without its "total_needed > 0" conjunct
must_draft_dst_or_k_without_need(roster) ==
    LET needed_dst == IF count_position(roster, "DST") = 0
                         /\ can_fill_position(roster, "DST") THEN 1 ELSE 0
        needed_k == IF count_position(roster, "K") = 0
                       /\ can_fill_position(roster, "K") THEN 1 ELSE 0
    IN  total_roster_slots(roster) - total_filled_slots(roster)
            <= needed_dst + needed_k

must_draft_dst_or_k(roster) ==
    LET dst_count == count_position(roster, "DST")
        k_count == count_position(roster, "K")
        needed_dst == IF dst_count = 0 /\ can_fill_position(roster, "DST")
                      THEN 1 ELSE 0
        needed_k == IF k_count = 0 /\ can_fill_position(roster, "K")
                    THEN 1 ELSE 0
        total_needed == needed_dst + needed_k
        remaining_picks == total_roster_slots(roster) - total_filled_slots(roster)
    IN  total_needed > 0 /\ remaining_picks <= total_needed

\* the required position, or "" for Python's None
get_required_dst_k_position(roster) ==
    LET dst_count == count_position(roster, "DST")
        k_count == count_position(roster, "K")
        remaining_picks == total_roster_slots(roster) - total_filled_slots(roster)
    IN  IF ~must_draft_dst_or_k(roster) THEN ""
        ELSE IF remaining_picks = 1
        THEN IF dst_count = 0 /\ can_fill_position(roster, "DST") THEN "DST"
             ELSE IF k_count = 0 /\ can_fill_position(roster, "K") THEN "K"
             ELSE ""
        ELSE IF remaining_picks = 2
        THEN IF dst_count = 0 /\ k_count = 0 THEN "DST"
             ELSE IF dst_count = 0 /\ can_fill_position(roster, "DST") THEN "DST"
             ELSE IF k_count = 0 /\ can_fill_position(roster, "K") THEN "K"
             ELSE ""
        ELSE ""

(***************************************************************************)
(* DraftStrategy helpers (browser copy).  A player list is a sequence of   *)
(* Player records; a strategy returns a player id or None.                 *)
(***************************************************************************)

\* Python's min(players, key=rank): the first player of least rank
MinByRank(players) ==
    players[CHOOSE i \in DOMAIN players :
                \A j \in DOMAIN players :
                    \/ players[i].rank < players[j].rank
                    \/ players[i].rank = players[j].rank /\ i <= j]

\* the QBs taken out of a list: [p for p in players if p['position'] != 'QB']
WithoutQB(players) == SelectSeq(players, LAMBDA p : p.position # "QB")

_filter_draftable_players(players, roster) ==
    SelectSeq(players, LAMBDA p : can_fill_position(roster, p.position))

\* the filter without the can_fill_position test
_filter_skill_position_players_any_slot(players, roster) ==
    SelectSeq(players, LAMBDA p : p.position \in {"QB", "RB", "WR", "TE"})

_filter_skill_position_players(players, roster) ==
    SelectSeq(players, LAMBDA p : /\ p.position \in {"QB", "RB", "WR", "TE"}
                                  /\ can_fill_position(roster, p.position))

_get_players_by_position(players, position) ==
    SelectSeq(players, LAMBDA p : p.position = position)

\* the best player at the position, or NoPlayer for Python's None
_get_best_player_at_position(players, position) ==
    LET position_players == _get_players_by_position(players, position)
    IN  IF position_players = <<>> THEN NoPlayer ELSE MinByRank(position_players)

_should_draft_qb(roster) ==
    LET qb_count == count_position(roster, "QB")
        current_round == get_round_number(roster)
    IN  IF qb_count >= 2 THEN FALSE
        ELSE IF qb_count >= 1 /\ current_round <= 9 THEN FALSE
        ELSE TRUE

\* the second half of _handle_dst_k_draft: the final-two-rounds preference
dst_k_by_need(players, roster) ==
    LET dst_player == _get_best_player_at_position(players, "DST")
        k_player == _get_best_player_at_position(players, "K")
    IN  IF ~needs_dst_or_k(roster) THEN None
        ELSE IF /\ count_position(roster, "DST") = 0
                /\ can_fill_position(roster, "DST")
                /\ dst_player # NoPlayer
        THEN dst_player.id
        ELSE IF /\ count_position(roster, "K") = 0
                /\ can_fill_position(roster, "K")
                /\ k_player # NoPlayer
        THEN k_player.id
        ELSE None

_handle_dst_k_draft(players, roster) ==
    LET required_position == get_required_dst_k_position(roster)
        dst_player == _get_best_player_at_position(players, "DST")
        k_player == _get_best_player_at_position(players, "K")
    IN  IF /\ must_draft_dst_or_k(roster)
           /\ required_position = "DST"
           /\ dst_player # NoPlayer
        THEN dst_player.id
        ELSE IF /\ must_draft_dst_or_k(roster)
                /\ required_position = "K"
                /\ k_player # NoPlayer
        THEN k_player.id
        ELSE dst_k_by_need(players, roster)

\* the closing lines of most strategies: best rank among the skill players,
\* the QBs left out when _should_draft_qb refuses them
\* the fallback with the QB rule applied whatever the roster holds
skill_bpa_never_qb(skill_players, roster) ==
    LET candidates == WithoutQB(skill_players)
    IN  IF candidates # <<>> THEN MinByRank(candidates).id ELSE None

skill_bpa(skill_players, roster) ==
    LET candidates == IF ~_should_draft_qb(roster)
                      THEN WithoutQB(skill_players) ELSE skill_players
    IN  IF candidates # <<>> THEN MinByRank(candidates).id ELSE None

\* "x_player = best at position; if x_player and can_fill_position(position)"
takes(skill_players, roster, position) ==
    /\ _get_best_player_at_position(skill_players, position) # NoPlayer
    /\ can_fill_position(roster, position)

best_id(skill_players, position) ==
    _get_best_player_at_position(skill_players, position).id

(***************************************************************************)
(* The strategies of the browser copy                                      *)
(***************************************************************************)

BestPlayerAvailableStrategy(players, roster) ==
    LET dst_k_pick == _handle_dst_k_draft(players, roster)
        skill_players == _filter_skill_position_players(players, roster)
    IN  IF Truthy(dst_k_pick) THEN dst_k_pick
        ELSE IF skill_players = <<>> THEN None
        ELSE skill_bpa(skill_players, roster)

\* Tier-Based without the fallback to the best rank
TierBasedStrategy_no_fallback(players, roster) ==
    LET dst_k_pick == _handle_dst_k_draft(players, roster)
        all_skill == _filter_skill_position_players(players, roster)
        skill_players == IF ~_should_draft_qb(roster)
                         THEN WithoutQB(all_skill) ELSE all_skill
        tiered_players == SelectSeq(skill_players, LAMBDA p : p.tier # NoTier)
        best_tiered ==
            tiered_players[CHOOSE i \in DOMAIN tiered_players :
                \A j \in DOMAIN tiered_players :
                    LET a == tiered_players[i]
                        b == tiered_players[j]
                    IN  \/ a.tier < b.tier
                        \/ a.tier = b.tier /\ a.rank < b.rank
                        \/ a.tier = b.tier /\ a.rank = b.rank /\ i <= j]
    IN  IF Truthy(dst_k_pick) THEN dst_k_pick
        ELSE IF tiered_players = <<>> THEN None
        ELSE best_tiered.id

TierBasedStrategy(players, roster) ==
    LET dst_k_pick == _handle_dst_k_draft(players, roster)
        all_skill == _filter_skill_position_players(players, roster)
        skill_players == IF ~_should_draft_qb(roster)
                         THEN WithoutQB(all_skill) ELSE all_skill
        tiered_players == SelectSeq(skill_players, LAMBDA p : p.tier # NoTier)
        \* min(tiered_players, key=(tier, rank)): the first of least (tier, rank)
        best_tiered ==
            tiered_players[CHOOSE i \in DOMAIN tiered_players :
                \A j \in DOMAIN tiered_players :
                    LET a == tiered_players[i]
                        b == tiered_players[j]
                    IN  \/ a.tier < b.tier
                        \/ a.tier = b.tier /\ a.rank < b.rank
                        \/ a.tier = b.tier /\ a.rank = b.rank /\ i <= j]
    IN  IF Truthy(dst_k_pick) THEN dst_k_pick
        ELSE IF all_skill = <<>> THEN None
        ELSE IF skill_players = <<>> THEN None
        ELSE IF tiered_players = <<>> THEN MinByRank(skill_players).id
        ELSE best_tiered.id

\* sorted(priorities.items(), key=priority, reverse=True) over the positions
\* given in dict order: Python's sort is stable, also when reversed
RECURSIVE SortedByPriority(_, _)
SortedByPriority(priorities, positions) ==
    IF positions = <<>> THEN <<>>
    ELSE LET top == CHOOSE i \in DOMAIN positions :
                       \A j \in DOMAIN positions :
                           \/ priorities[positions[i]] > priorities[positions[j]]
                           \/ /\ priorities[positions[i]] = priorities[positions[j]]
                              /\ i <= j
             rest == [k \in 1..(Len(positions) - 1) |->
                        IF k < top THEN positions[k] ELSE positions[k + 1]]
         IN  <<positions[top]>> \o SortedByPriority(priorities, rest)

PositionalNeedStrategy(players, roster) ==
    LET dst_k_pick == _handle_dst_k_draft(players, roster)
        skill_players == _filter_skill_position_players(players, roster)
        priorities == get_position_need_priority(roster)
        sorted_positions ==
            SortedByPriority(priorities, <<"QB", "RB", "WR", "TE">>)
        \* the positions of the loop that return a player
        hits == {i \in DOMAIN sorted_positions :
                    /\ priorities[sorted_positions[i]] > 0
                    /\ ~(sorted_positions[i] = "QB" /\ ~_should_draft_qb(roster))
                    /\ _get_players_by_position(skill_players,
                                                sorted_positions[i]) # <<>>}
        first_hit == CHOOSE i \in hits : \A j \in hits : i <= j
    IN  IF Truthy(dst_k_pick) THEN dst_k_pick
        ELSE IF skill_players = <<>> THEN None
        ELSE IF hits # {}
        THEN best_id(skill_players, sorted_positions[first_hit])
        ELSE skill_bpa(skill_players, roster)

WRHeavyStrategy(players, roster) ==
    LET dst_k_pick == _handle_dst_k_draft(players, roster)
        skill_players == _filter_skill_position_players(players, roster)
        wr_count == count_position(roster, "WR")
        qb_count == count_position(roster, "QB")
        rb_count == count_position(roster, "RB")
        current_round == get_round_number(roster)
    IN  IF Truthy(dst_k_pick) THEN dst_k_pick
        ELSE IF skill_players = <<>> THEN None
        ELSE IF current_round <= 6 /\ wr_count < 3
                /\ takes(skill_players, roster, "WR")
        THEN best_id(skill_players, "WR")
        ELSE IF qb_count = 0 /\ current_round >= 5 /\ _should_draft_qb(roster)
                /\ takes(skill_players, roster, "QB")
        THEN best_id(skill_players, "QB")
        ELSE IF rb_count = 0 /\ current_round >= 4
                /\ takes(skill_players, roster, "RB")
        THEN best_id(skill_players, "RB")
        ELSE IF wr_count < 5 /\ takes(skill_players, roster, "WR")
        THEN best_id(skill_players, "WR")
        ELSE skill_bpa(skill_players, roster)

RBHeavyStrategy(players, roster) ==
    LET dst_k_pick == _handle_dst_k_draft(players, roster)
        skill_players == _filter_skill_position_players(players, roster)
        rb_count == count_position(roster, "RB")
        wr_count == count_position(roster, "WR")
        qb_count == count_position(roster, "QB")
        current_round == get_round_number(roster)
    IN  IF Truthy(dst_k_pick) THEN dst_k_pick
        ELSE IF skill_players = <<>> THEN None
        ELSE IF current_round <= 5 /\ rb_count < 3
                /\ takes(skill_players, roster, "RB")
        THEN best_id(skill_players, "RB")
        ELSE IF qb_count = 0 /\ current_round >= 5 /\ _should_draft_qb(roster)
                /\ takes(skill_players, roster, "QB")
        THEN best_id(skill_players, "QB")
        ELSE IF wr_count < 2 /\ takes(skill_players, roster, "WR")
        THEN best_id(skill_players, "WR")
        ELSE IF rb_count < 5 /\ takes(skill_players, roster, "RB")
        THEN best_id(skill_players, "RB")
        ELSE skill_bpa(skill_players, roster)

HeroWRStrategy(players, roster) ==
    LET dst_k_pick == _handle_dst_k_draft(players, roster)
        skill_players == _filter_skill_position_players(players, roster)
        wr_count == count_position(roster, "WR")
        rb_count == count_position(roster, "RB")
        te_count == count_position(roster, "TE")
        qb_count == count_position(roster, "QB")
        current_round == get_round_number(roster)
    IN  IF Truthy(dst_k_pick) THEN dst_k_pick
        ELSE IF skill_players = <<>> THEN None
        ELSE IF current_round = 1 /\ takes(skill_players, roster, "WR")
        THEN best_id(skill_players, "WR")
        ELSE IF current_round <= 6 /\ wr_count >= 1 /\ rb_count < 3
                /\ takes(skill_players, roster, "RB")
        THEN best_id(skill_players, "RB")
        ELSE IF current_round <= 6 /\ wr_count >= 1 /\ te_count < 2
                /\ takes(skill_players, roster, "TE")
        THEN best_id(skill_players, "TE")
        ELSE IF current_round <= 6 /\ wr_count >= 1 /\ wr_count < 2
                /\ takes(skill_players, roster, "WR")
        THEN best_id(skill_players, "WR")
        ELSE IF qb_count = 0 /\ 4 <= current_round /\ current_round <= 7
                /\ _should_draft_qb(roster)
                /\ takes(skill_players, roster, "QB")
        THEN best_id(skill_players, "QB")
        ELSE IF rb_count < 4 /\ takes(skill_players, roster, "RB")
        THEN best_id(skill_players, "RB")
        ELSE IF wr_count < 4 /\ takes(skill_players, roster, "WR")
        THEN best_id(skill_players, "WR")
        ELSE skill_bpa(skill_players, roster)

HeroRBStrategy(players, roster) ==
    LET dst_k_pick == _handle_dst_k_draft(players, roster)
        skill_players == _filter_skill_position_players(players, roster)
        rb_count == count_position(roster, "RB")
        wr_count == count_position(roster, "WR")
        te_count == count_position(roster, "TE")
        qb_count == count_position(roster, "QB")
        current_round == get_round_number(roster)
    IN  IF Truthy(dst_k_pick) THEN dst_k_pick
        ELSE IF skill_players = <<>> THEN None
        ELSE IF current_round = 1 /\ takes(skill_players, roster, "RB")
        THEN best_id(skill_players, "RB")
        ELSE IF current_round <= 6 /\ rb_count >= 1 /\ wr_count < 3
                /\ takes(skill_players, roster, "WR")
        THEN best_id(skill_players, "WR")
        ELSE IF current_round <= 6 /\ rb_count >= 1 /\ te_count < 2
                /\ takes(skill_players, roster, "TE")
        THEN best_id(skill_players, "TE")
        ELSE IF qb_count = 0 /\ current_round >= 4 /\ _should_draft_qb(roster)
                /\ takes(skill_players, roster, "QB")
        THEN best_id(skill_players, "QB")
        ELSE skill_bpa(skill_players, roster)

\* Zero RB with the WR/TE window closing after round 3 instead of round 5
ZeroRBStrategy_until_round_3(players, roster) ==
    LET dst_k_pick == _handle_dst_k_draft(players, roster)
        skill_players == _filter_skill_position_players(players, roster)
        rb_count == count_position(roster, "RB")
        wr_count == count_position(roster, "WR")
        te_count == count_position(roster, "TE")
        qb_count == count_position(roster, "QB")
        current_round == get_round_number(roster)
    IN  IF Truthy(dst_k_pick) THEN dst_k_pick
        ELSE IF skill_players = <<>> THEN None
        ELSE IF current_round <= 3 /\ wr_count < 3
                /\ takes(skill_players, roster, "WR")
        THEN best_id(skill_players, "WR")
        ELSE IF current_round <= 3 /\ te_count < 2
                /\ takes(skill_players, roster, "TE")
        THEN best_id(skill_players, "TE")
        ELSE IF qb_count = 0 /\ 4 <= current_round /\ current_round <= 6
                /\ _should_draft_qb(roster)
                /\ takes(skill_players, roster, "QB")
        THEN best_id(skill_players, "QB")
        ELSE IF current_round >= 6 /\ rb_count < 2
                /\ takes(skill_players, roster, "RB")
        THEN best_id(skill_players, "RB")
        ELSE skill_bpa(skill_players, roster)

ZeroRBStrategy(players, roster) ==
    LET dst_k_pick == _handle_dst_k_draft(players, roster)
        skill_players == _filter_skill_position_players(players, roster)
        rb_count == count_position(roster, "RB")
        wr_count == count_position(roster, "WR")
        te_count == count_position(roster, "TE")
        qb_count == count_position(roster, "QB")
        current_round == get_round_number(roster)
    IN  IF Truthy(dst_k_pick) THEN dst_k_pick
        ELSE IF skill_players = <<>> THEN None
        ELSE IF current_round <= 5 /\ wr_count < 3
                /\ takes(skill_players, roster, "WR")
        THEN best_id(skill_players, "WR")
        ELSE IF current_round <= 5 /\ te_count < 2
                /\ takes(skill_players, roster, "TE")
        THEN best_id(skill_players, "TE")
        ELSE IF qb_count = 0 /\ 4 <= current_round /\ current_round <= 6
                /\ _should_draft_qb(roster)
                /\ takes(skill_players, roster, "QB")
        THEN best_id(skill_players, "QB")
        ELSE IF current_round >= 6 /\ rb_count < 2
                /\ takes(skill_players, roster, "RB")
        THEN best_id(skill_players, "RB")
        ELSE skill_bpa(skill_players, roster)

LateQBStrategy(players, roster) ==
    LET dst_k_pick == _handle_dst_k_draft(players, roster)
        skill_players == _filter_skill_position_players(players, roster)
        qb_count == count_position(roster, "QB")
        rb_count == count_position(roster, "RB")
        wr_count == count_position(roster, "WR")
        te_count == count_position(roster, "TE")
        current_round == get_round_number(roster)
    IN  IF Truthy(dst_k_pick) THEN dst_k_pick
        ELSE IF skill_players = <<>> THEN None
        ELSE IF current_round <= 7 /\ qb_count = 0 /\ rb_count < 2
                /\ takes(skill_players, roster, "RB")
        THEN best_id(skill_players, "RB")
        ELSE IF current_round <= 7 /\ qb_count = 0 /\ wr_count < 3
                /\ takes(skill_players, roster, "WR")
        THEN best_id(skill_players, "WR")
        ELSE IF current_round <= 7 /\ qb_count = 0 /\ te_count < 1
                /\ takes(skill_players, roster, "TE")
        THEN best_id(skill_players, "TE")
        ELSE IF qb_count = 0 /\ current_round >= 8 /\ _should_draft_qb(roster)
                /\ takes(skill_players, roster, "QB")
        THEN best_id(skill_players, "QB")
        ELSE skill_bpa(skill_players, roster)

EarlyQBStrategy(players, roster) ==
    LET dst_k_pick == _handle_dst_k_draft(players, roster)
        skill_players == _filter_skill_position_players(players, roster)
        qb_count == count_position(roster, "QB")
        rb_count == count_position(roster, "RB")
        wr_count == count_position(roster, "WR")
        current_round == get_round_number(roster)
    IN  IF Truthy(dst_k_pick) THEN dst_k_pick
        ELSE IF skill_players = <<>> THEN None
        ELSE IF 2 <= current_round /\ current_round <= 4 /\ qb_count = 0
                /\ _should_draft_qb(roster)
                /\ takes(skill_players, roster, "QB")
        THEN best_id(skill_players, "QB")
        ELSE IF rb_count < 2 /\ takes(skill_players, roster, "RB")
        THEN best_id(skill_players, "RB")
        ELSE IF wr_count < 3 /\ takes(skill_players, roster, "WR")
        THEN best_id(skill_players, "WR")
        ELSE skill_bpa(skill_players, roster)

\* Python's max(p['rank'] for p in players)
MaxRank(players) ==
    LET ranks == {players[i].rank : i \in DOMAIN players}
    IN  CHOOSE r \in ranks : \A q \in ranks : q <= r

\* composite_score * 1000 * max_rank, an integer:
\*   0.6 * (max_rank - rank + 1) / max_rank + 0.4 * priority / 100
composite_score(player, max_rank, priorities) ==
    600 * (max_rank - player.rank + 1)
    + 4 * (IF player.position \in DOMAIN priorities
           THEN priorities[player.position] ELSE 0) * max_rank

BalancedStrategy(players, roster) ==
    LET dst_k_pick == _handle_dst_k_draft(players, roster)
        all_skill == _filter_skill_position_players(players, roster)
        skill_players == IF ~_should_draft_qb(roster)
                         THEN WithoutQB(all_skill) ELSE all_skill
        max_rank == MaxRank(skill_players)
        priorities == get_position_need_priority(roster)
        skill_priorities == [pos \in {"QB", "RB", "WR", "TE"} |-> priorities[pos]]
        score(i) == composite_score(skill_players[i], max_rank, skill_priorities)
        \* the loop keeps the first player of greatest score
        best == CHOOSE i \in DOMAIN skill_players :
                    \A j \in DOMAIN skill_players :
                        score(i) > score(j) \/ (score(i) = score(j) /\ i <= j)
    IN  IF Truthy(dst_k_pick) THEN dst_k_pick
        ELSE IF all_skill = <<>> THEN None
        ELSE IF skill_players = <<>> THEN None
        ELSE skill_players[best].id

(***************************************************************************)
(* The strategies of the server copy (pandas DataFrames).  Its TeamRoster  *)
(* has the same can_fill_position and get_position_need_priority; it has   *)
(* no DST/K handling and no QB rule.  sort_values(...).iloc[0] is the row  *)
(* of least key; among rows of equal key pandas promises no order, so a    *)
(* strategy is modelled by the set of ids it may return ({None} for None). *)
(***************************************************************************)

\* draftable.sort_values('rank').iloc[0]: the ids of least rank
LeastRankIds(players) ==
    {players[i].id : i \in {i \in DOMAIN players :
                               \A j \in DOMAIN players :
                                   players[i].rank <= players[j].rank}}

Api_BestPlayerAvailableStrategy(players, roster) ==
    LET draftable == _filter_draftable_players(players, roster)
    IN  IF draftable = <<>> THEN {None} ELSE LeastRankIds(draftable)

Api_BestTierAvailableStrategy(players, roster) ==
    LET draftable == _filter_draftable_players(players, roster)
        tiered_players == SelectSeq(draftable, LAMBDA p : p.tier # NoTier)
    IN  IF draftable = <<>> THEN {None}
        ELSE IF tiered_players = <<>> THEN LeastRankIds(draftable)
        ELSE {tiered_players[i].id : i \in {i \in DOMAIN tiered_players :
                 \A j \in DOMAIN tiered_players :
                    LET a == tiered_players[i]
                        b == tiered_players[j]
                    IN  a.tier < b.tier \/ (a.tier = b.tier /\ a.rank <= b.rank)}}

_draft_by_need(draftable, roster) ==
    LET priorities == get_position_need_priority(roster)
        sorted_positions == SortedByPriority(priorities, PlayerPositions)
        hits == {i \in DOMAIN sorted_positions :
                    /\ priorities[sorted_positions[i]] > 0
                    /\ _get_players_by_position(draftable,
                                                sorted_positions[i]) # <<>>}
        first_hit == CHOOSE i \in hits : \A j \in hits : i <= j
    IN  IF hits # {}
        THEN LeastRankIds(_get_players_by_position(draftable,
                                                   sorted_positions[first_hit]))
        ELSE IF draftable # <<>> THEN LeastRankIds(draftable)
        ELSE {None}

\* PositionalDraftStrategy.__call__, for the class's draft_sequence
Api_PositionalCall(draft_sequence, players, roster) ==
    LET draftable == _filter_draftable_players(players, roster)
        filled_slots == Len(SelectSeq(roster, LAMBDA slot : slot.is_filled))
        target_position == draft_sequence[filled_slots + 1]
        position_players == _get_players_by_position(draftable, target_position)
    IN  IF draftable = <<>> THEN {None}
        ELSE IF ~(filled_slots < Len(draft_sequence))
        THEN _draft_by_need(draftable, roster)
        ELSE IF position_players # <<>> /\ can_fill_position(roster, target_position)
        THEN LeastRankIds(position_players)
        ELSE LeastRankIds(draftable)

Api_PositionalDraftStrategy(players, roster) ==
    Api_PositionalCall(<<"WR", "RB", "WR", "RB", "QB", "TE",
                         "RB", "WR", "QB", "TE", "DST", "K">>, players, roster)

Api_ZeroRBStrategy(players, roster) ==
    Api_PositionalCall(<<"WR", "WR", "TE", "WR", "QB", "WR",
                         "RB", "RB", "TE", "RB", "DST", "K">>, players, roster)

Api_RobustRBStrategy(players, roster) ==
    Api_PositionalCall(<<"RB", "RB", "WR", "RB", "WR", "TE",
                         "QB", "RB", "WR", "TE", "DST", "K">>, players, roster)

Api_BalancedStrategy(players, roster) ==
    LET draftable == _filter_draftable_players(players, roster)
        max_rank == MaxRank(draftable)
        priorities == get_position_need_priority(roster)
        score(i) == composite_score(draftable[i], max_rank, priorities)
    IN  IF draftable = <<>> THEN {None}
        ELSE {draftable[i].id : i \in {i \in DOMAIN draftable :
                 \A j \in DOMAIN draftable : score(i) >= score(j)}}

(***************************************************************************)
(* The registries: AVAILABLE_STRATEGIES of each copy                       *)
(***************************************************************************)

\* browser copy; "manual" maps to None, which is no strategy
AVAILABLE_STRATEGIES ==
    {"manual", "bpa", "positional", "tier", "balanced", "wr_heavy", "rb_heavy",
     "hero_rb", "hero_wr", "zero_rb", "late_qb", "early_qb"}

\* AVAILABLE_STRATEGIES[name](players, roster), for a name other than "manual"
strategy_call(name, players, roster) ==
    CASE name = "bpa" -> BestPlayerAvailableStrategy(players, roster)
      [] name = "positional" -> PositionalNeedStrategy(players, roster)
      [] name = "tier" -> TierBasedStrategy(players, roster)
      [] name = "balanced" -> BalancedStrategy(players, roster)
      [] name = "wr_heavy" -> WRHeavyStrategy(players, roster)
      [] name = "rb_heavy" -> RBHeavyStrategy(players, roster)
      [] name = "hero_rb" -> HeroRBStrategy(players, roster)
      [] name = "hero_wr" -> HeroWRStrategy(players, roster)
      [] name = "zero_rb" -> ZeroRBStrategy(players, roster)
      [] name = "late_qb" -> LateQBStrategy(players, roster)
      [] name = "early_qb" -> EarlyQBStrategy(players, roster)

\* server copy
Api_AVAILABLE_STRATEGIES ==
    {"bpa", "tier", "positional", "zero_rb", "robust_rb", "balanced"}

\* the ids AVAILABLE_STRATEGIES[name](players, roster) may return (server copy)
Api_strategy_call(name, players, roster) ==
    CASE name = "bpa" -> Api_BestPlayerAvailableStrategy(players, roster)
      [] name = "tier" -> Api_BestTierAvailableStrategy(players, roster)
      [] name = "positional" -> Api_PositionalDraftStrategy(players, roster)
      [] name = "zero_rb" -> Api_ZeroRBStrategy(players, roster)
      [] name = "robust_rb" -> Api_RobustRBStrategy(players, roster)
      [] name = "balanced" -> Api_BalancedStrategy(players, roster)

(***************************************************************************)
(* apply_strategy_variability.  The variability level is in hundredths     *)
(* (30 is 0.3); weights are exact integers over a common denominator,      *)
(* which the normalisation (w / total_weight) cancels.                     *)
(***************************************************************************)

\* Python's sorted(players, key=rank): stable
SortedByRank(players) ==
    LET before(j, i) == \/ players[j].rank < players[i].rank
                        \/ players[j].rank = players[i].rank /\ j < i
    IN  [k \in 1..Len(players) |->
            players[CHOOSE i \in DOMAIN players :
                        Cardinality({j \in DOMAIN players : before(j, i)}) = k - 1]]

\* how many of the top-ranked players the shortlist holds at most
ShortlistMax == 10

\* the tables with the low band one entry too long
band_weights_long_low(variability, num_players) ==
    LET table == IF variability <= 30 THEN <<60, 25, 10, 4, 1>>
                 ELSE IF variability <= 60 THEN <<40, 30, 15, 10, 5>>
                 ELSE <<30, 20, 15, 12, 8, 6, 4, 3, 2>>
    IN  IF num_players > Len(table)
        THEN table \o Repeat(0, num_players - Len(table))
        ELSE table

\* the table of the variability band, in hundredths, padded with zeros to
\* num_players entries when it is shorter ([0.0] * negative is the empty list)
band_weights(variability, num_players) ==
    LET table == IF variability <= 30 THEN <<60, 25, 10, 5>>
                 ELSE IF variability <= 60 THEN <<40, 30, 15, 10, 5>>
                 ELSE <<30, 20, 15, 12, 8, 6, 4, 3, 2>>
    IN  IF num_players > Len(table)
        THEN table \o Repeat(0, num_players - Len(table))
        ELSE table

\* cumulative[i] = weights[1] + ... + weights[i]
RECURSIVE cumulative(_, _)
cumulative(weights, i) ==
    IF i = 0 THEN 0 ELSE weights[i] + cumulative(weights, i - 1)

\* the weights before normalisation.  Above 0.7 each weight w becomes
\*   (1 - 2v * 0.3) * w + (2v * 0.3) / num_players
\* which over the denominator 100000 * num_players is
\*   (1000 - 6V) * W * num_players + 600 * V      (v = V/100, w = W/100)
selection_weights(variability, num_players) ==
    LET table == band_weights(variability, num_players)
        cut == SubSeq(table, 1, Min(Len(table), num_players))
        flattened == [i \in DOMAIN cut |->
                        (1000 - 6 * variability) * cut[i] * num_players
                        + 600 * variability]
        weights == IF variability > 70 THEN flattened ELSE cut
        total_weight == cumulative(weights, Len(weights))
    IN  IF total_weight > 0 THEN weights ELSE Repeat(1, num_players)

\* random.random() is a float in [0, 1).  The draw is kept as
\* rand_val * 2 * total_weight, in 0 .. 2 * total_weight - 1: the selection
\* depends only on where the draw lies among the cumulative weights, and the
\* draws below are 0, every cumulative weight and a point just above each.
RandomDraws(weights) ==
    LET total == cumulative(weights, Len(weights))
    IN  {r \in {0} \cup {2 * cumulative(weights, i) : i \in DOMAIN weights}
                   \cup {2 * cumulative(weights, i) + 1 : i \in DOMAIN weights} :
            r < 2 * total}

\* the loop "for i, cum_weight: if rand_val <= cum_weight: selected_index = i;
\* break", selected_index staying 0 when no cumulative weight reaches the draw
selected_index(weights, rand_val) ==
    LET reached == {i \in DOMAIN weights : rand_val <= 2 * cumulative(weights, i)}
    IN  IF reached = {} THEN 0
        ELSE (CHOOSE i \in reached : \A j \in reached : i <= j) - 1

\* the selector with the guard "variability < 0.0"
apply_strategy_variability_at_zero(players, strategy_result_id, variability, rand_val) ==
    LET available_sorted == SortedByRank(players)
        num_players == Min(Len(available_sorted), ShortlistMax)
        weights == selection_weights(variability, num_players)
    IN  IF variability < 0 \/ players = <<>> THEN strategy_result_id
        ELSE IF \A i \in DOMAIN available_sorted :
                    available_sorted[i].id # strategy_result_id
        THEN strategy_result_id
        ELSE available_sorted[selected_index(weights, rand_val) + 1].id

\* browser copy; rand_val is the value random.random() returned
apply_strategy_variability(players, strategy_result_id, variability, rand_val) ==
    LET available_sorted == SortedByRank(players)
        num_players == Min(Len(available_sorted), ShortlistMax)
        weights == selection_weights(variability, num_players)
    IN  IF variability <= 0 \/ players = <<>> THEN strategy_result_id
        ELSE IF \A i \in DOMAIN available_sorted :
                    available_sorted[i].id # strategy_result_id
        THEN strategy_result_id
        ELSE available_sorted[selected_index(weights, rand_val) + 1].id

\* the draws random.random() can return in that call (0 when it is not called)
variability_draws(players, strategy_result_id, variability) ==
    IF \/ variability <= 0 \/ players = <<>>
       \/ \A i \in DOMAIN players : players[i].id # strategy_result_id
    THEN {0}
    ELSE RandomDraws(selection_weights(variability,
                                       Min(Len(players), ShortlistMax)))

\* server copy: np.random.choice(range(num_players), p=weights) returns any
\* index of positive probability; the set of ids the call may return
Api_apply_strategy_variability(players, strategy_result_id, variability) ==
    LET available_sorted == SortedByRank(players)
        num_players == Min(Len(available_sorted), ShortlistMax)
        weights == selection_weights(variability, num_players)
    IN  IF variability <= 0 \/ players = <<>> THEN {strategy_result_id}
        ELSE IF \A i \in DOMAIN available_sorted :
                    available_sorted[i].id # strategy_result_id
        THEN {strategy_result_id}
        ELSE {available_sorted[i].id : i \in {i \in DOMAIN weights : weights[i] > 0}}

\* browser copy: the id execute_strategy_with_variability returns
execute_strategy_with_variability(name, players, roster, variability, rand_val) ==
    LET optimal_pick == strategy_call(name, players, roster)
    IN  IF optimal_pick = None THEN None
        ELSE apply_strategy_variability(players, optimal_pick, variability, rand_val)

(***************************************************************************)
(* The simulator's roster update (simulate_draft_until_my_turn): the       *)
(* drafted player goes into the first empty slot, in list order, that is   *)
(* of the player's position, or FLEX for RB/WR/TE, or BENCH.  When no slot *)
(* takes the player the roster is left as it is.                           *)
(***************************************************************************)

\* a slot test that lets every empty slot take every player
slot_takes_any_player(slot, player_obj) == ~slot.is_filled

slot_takes(slot, player_obj) ==
    /\ ~slot.is_filled
    /\ \/ slot.position = player_obj.position
       \/ slot.position = "FLEX" /\ player_obj.position \in {"RB", "WR", "TE"}
       \/ slot.position = "BENCH"

\* index of the slot the loop fills, 0 when it fills none
first_eligible_slot(roster, player_obj) ==
    LET eligible == {i \in DOMAIN roster : slot_takes(roster[i], player_obj)}
    IN  IF eligible = {} THEN 0
        ELSE CHOOSE i \in eligible : \A j \in eligible : i <= j

add_player_to_roster(roster, player_obj) ==
    LET first == first_eligible_slot(roster, player_obj)
    IN  IF first = 0 THEN roster
        ELSE [roster EXCEPT ![first] = RosterSlot(roster[first].position,
                                                  player_obj, TRUE)]

(***************************************************************************)
(* Bounded inputs: rosters                                                 *)
(***************************************************************************)

\* BENCH slots of the rosters the roster queries are explored on
NumBench == 1

\* roster_requirements -> roster_slots: one empty slot per required position
EmptyRoster(slot_positions) ==
    [i \in DOMAIN slot_positions |-> RosterSlot(slot_positions[i], NoPlayer, FALSE)]

\* a league with DST and K slots, and a league without them
LeagueSlots(bench) ==
    <<"QB", "RB", "WR", "TE", "FLEX", "DST", "K">> \o Repeat("BENCH", bench)

SkillLeagueSlots(bench) ==
    <<"QB", "RB", "WR", "TE", "FLEX">> \o Repeat("BENCH", bench)

\* a roster list that names its BENCH and FLEX slots before the others
BenchFirstSlots(bench) ==
    Repeat("BENCH", bench) \o <<"FLEX", "QB", "RB", "WR", "TE", "K">>

\* a player drafted earlier in the draft (no longer in any pool); n tells the
\* drafted players of one roster apart
DraftedPlayer(position, n) == Player(100 + n, position, 100 + n, NoTier)

(***************************************************************************)
(* SpecRoster: roster queries on every roster the slot assignment reaches  *)
(***************************************************************************)

InitRoster ==
    /\ team_roster \in {EmptyRoster(LeagueSlots(NumBench)),
                        EmptyRoster(SkillLeagueSlots(NumBench + 1)),
                        EmptyRoster(BenchFirstSlots(NumBench))}
    /\ available_players = <<>>
    /\ call = [op |-> "init"]
    /\ teams_data = <<>>
    /\ sim = NoSim

\* a pick lands on the roster (the simulator's roster update)
AddPlayerToRoster ==
    \E position \in Range(PlayerPositions) :
        LET player_obj ==
                DraftedPlayer(position,
                    first_eligible_slot(team_roster, Player(0, position, 0, NoTier)))
        IN  /\ team_roster' = add_player_to_roster(team_roster, player_obj)
            /\ call' = [op |-> "add_player_to_roster", position |-> position]
            /\ UNCHANGED <<available_players, teams_data, sim>>

CanFillPosition ==
    \E position \in Range(PlayerPositions) :
        /\ call' = [op |-> "can_fill_position", position |-> position,
                    result |-> can_fill_position(team_roster, position)]
        /\ UNCHANGED <<team_roster, available_players, teams_data, sim>>

MustDraftDstOrK ==
    /\ call' = [op |-> "must_draft_dst_or_k",
                result |-> must_draft_dst_or_k(team_roster)]
    /\ UNCHANGED <<team_roster, available_players, teams_data, sim>>

NextRoster == AddPlayerToRoster \/ CanFillPosition \/ MustDraftDstOrK

SpecRoster == InitRoster /\ [][NextRoster]_vars

(***************************************************************************)
(* Bounded inputs of the strategies: pools and mid-draft rosters           *)
(***************************************************************************)

\* BENCH slots of the league the strategies are called on
StrategyBench == 3

\* the most players a pool handed to a strategy holds
MaxPool == 3

\* the undrafted players: unique ids and ranks, list order not rank order;
\* some with tier data, some without
PlayerUniverse ==
    << Player(1, "QB", 2, NoTier),  Player(2, "RB", 5, NoTier),
       Player(3, "WR", 3, NoTier),  Player(4, "TE", 7, NoTier),
       Player(5, "DST", 1, NoTier), Player(6, "K", 4, NoTier),
       Player(7, "WR", 9, 1),       Player(8, "RB", 6, 2) >>

\* the sublist of the universe holding the players with the ids given
Sublist(players, ids) == SelectSeq(players, LAMBDA p : p.id \in ids)

Pools ==
    {Sublist(PlayerUniverse, ids) :
        ids \in {x \in SUBSET {PlayerUniverse[i].id : i \in DOMAIN PlayerUniverse} :
                    Cardinality(x) <= MaxPool}}

\* the positions a team drafted, round after round, repeating
DraftOrder == <<"RB", "WR", "QB", "TE", "RB", "WR", "DST", "K">>

\* the n picks of the draft order that follow its first `start` picks
PicksFrom(start, n) ==
    [k \in 1..n |-> DraftOrder[((start + k - 1) % Len(DraftOrder)) + 1]]

\* the roster after the picks landed on it, one by one
RECURSIVE RosterAfter(_, _)
RosterAfter(roster, picks) ==
    IF picks = <<>> THEN roster
    ELSE RosterAfter(
            add_player_to_roster(roster,
                DraftedPlayer(Head(picks),
                    first_eligible_slot(roster, Player(0, Head(picks), 0, NoTier)))),
            Tail(picks))

MidDraftRosters(slot_positions) ==
    {RosterAfter(EmptyRoster(slot_positions), PicksFrom(start, n)) :
        start \in 0..(Len(DraftOrder) - 1), n \in 0..Len(slot_positions)}

Rosters ==
    MidDraftRosters(LeagueSlots(StrategyBench))
    \cup MidDraftRosters(SkillLeagueSlots(StrategyBench - 1))
    \cup {RosterAfter(EmptyRoster(<<"QB", "RB", "WR", "WR", "WR", "TE", "FLEX", "BENCH">>),
                      SubSeq(<<"WR", "WR", "WR", "TE">>, 1, n)) : n \in 3..4}

(***************************************************************************)
(* SpecStrategy: every strategy of both registries, called directly on     *)
(* every pool and roster of the bounded inputs                             *)
(***************************************************************************)

InitStrategy ==
    /\ team_roster \in Rosters
    /\ available_players \in Pools
    /\ call = [op |-> "init"]
    /\ teams_data = <<>>
    /\ sim = NoSim

\* strategy(available_players, team_roster) returned `result`
Returned(copy, name, result) ==
    /\ call.op = "init"
    /\ call' = [op |-> "strategy", copy |-> copy, name |-> name, result |-> result]
    /\ UNCHANGED <<team_roster, available_players, teams_data, sim>>

CallBestPlayerAvailable ==
    Returned("browser", "bpa",
             BestPlayerAvailableStrategy(available_players, team_roster))

CallPositionalNeed ==
    Returned("browser", "positional",
             PositionalNeedStrategy(available_players, team_roster))

CallTierBased ==
    Returned("browser", "tier", TierBasedStrategy(available_players, team_roster))

CallBalanced ==
    Returned("browser", "balanced", BalancedStrategy(available_players, team_roster))

CallWRHeavy ==
    Returned("browser", "wr_heavy", WRHeavyStrategy(available_players, team_roster))

CallRBHeavy ==
    Returned("browser", "rb_heavy", RBHeavyStrategy(available_players, team_roster))

CallHeroRB ==
    Returned("browser", "hero_rb", HeroRBStrategy(available_players, team_roster))

CallHeroWR ==
    Returned("browser", "hero_wr", HeroWRStrategy(available_players, team_roster))

CallZeroRB ==
    Returned("browser", "zero_rb", ZeroRBStrategy(available_players, team_roster))

CallLateQB ==
    Returned("browser", "late_qb", LateQBStrategy(available_players, team_roster))

CallEarlyQB ==
    Returned("browser", "early_qb", EarlyQBStrategy(available_players, team_roster))

CallApiBestPlayerAvailable ==
    \E id \in Api_BestPlayerAvailableStrategy(available_players, team_roster) :
        Returned("server", "bpa", id)

CallApiBestTierAvailable ==
    \E id \in Api_BestTierAvailableStrategy(available_players, team_roster) :
        Returned("server", "tier", id)

CallApiPositionalDraft ==
    \E id \in Api_PositionalDraftStrategy(available_players, team_roster) :
        Returned("server", "positional", id)

CallApiZeroRB ==
    \E id \in Api_ZeroRBStrategy(available_players, team_roster) :
        Returned("server", "zero_rb", id)

CallApiRobustRB ==
    \E id \in Api_RobustRBStrategy(available_players, team_roster) :
        Returned("server", "robust_rb", id)

CallApiBalanced ==
    \E id \in Api_BalancedStrategy(available_players, team_roster) :
        Returned("server", "balanced", id)

NextStrategy ==
    \/ CallBestPlayerAvailable \/ CallPositionalNeed \/ CallTierBased
    \/ CallBalanced \/ CallWRHeavy \/ CallRBHeavy \/ CallHeroRB \/ CallHeroWR
    \/ CallZeroRB \/ CallLateQB \/ CallEarlyQB
    \/ CallApiBestPlayerAvailable \/ CallApiBestTierAvailable
    \/ CallApiPositionalDraft \/ CallApiZeroRB \/ CallApiRobustRB
    \/ CallApiBalanced

SpecStrategy == InitStrategy /\ [][NextStrategy]_vars

(***************************************************************************)
(* SpecVariability: apply_strategy_variability and                         *)
(* execute_strategy_with_variability of both copies                        *)
(***************************************************************************)

\* the most players a list handed to the variability selector holds
MaxList == 11

\* the draft board: player k of the board, ids 1.., unique ranks that are not
\* in list order, every second player with tier data
BoardPlayer(k) ==
    Player(k, PlayerPositions[((k - 1) % Len(PlayerPositions)) + 1],
           ((k * 7) % 17) + 1,
           IF k % 2 = 1 THEN NoTier ELSE ((k \div 2) % 3) + 1)

\* the lists handed to the selector: the first n players of the board
BoardLists == {[k \in 1..n |-> BoardPlayer(k)] : n \in 0..MaxList}

\* variability levels, in hundredths: below 0, 0, and both sides of the band
\* edges
Levels == {-10, 0, 1, 30, 31, 60, 61, 70, 71, 100}

\* the rosters of the team on the clock: one draft, round by round
\* and a roster whose only empty slot is the K slot
BoardRosters ==
    {RosterAfter(EmptyRoster(LeagueSlots(StrategyBench)), PicksFrom(0, n)) :
        n \in 0..Len(LeagueSlots(StrategyBench))}
    \cup {RosterAfter(EmptyRoster(LeagueSlots(StrategyBench)),
                      PicksFrom(0, 7) \o Repeat("RB", StrategyBench - 1))}

InitVariability ==
    /\ team_roster \in BoardRosters
    /\ available_players \in BoardLists
    /\ call = [op |-> "init"]
    /\ teams_data = <<>>
    /\ sim = NoSim

ApplyStrategyVariability ==
    /\ call.op = "init"
    /\ \E strategy_result_id \in 1..(MaxList + 1), variability \in Levels :
      \E rand_val \in variability_draws(available_players, strategy_result_id,
                                        variability) :
        /\ call' = [op |-> "apply_strategy_variability", copy |-> "browser",
                    strategy_result_id |-> strategy_result_id,
                    variability |-> variability,
                    result |-> apply_strategy_variability(available_players,
                                  strategy_result_id, variability, rand_val)]
        /\ UNCHANGED <<team_roster, available_players, teams_data, sim>>

ApiApplyStrategyVariability ==
    /\ call.op = "init"
    /\ \E strategy_result_id \in 1..(MaxList + 1), variability \in Levels :
      \E result \in Api_apply_strategy_variability(available_players,
                                        strategy_result_id, variability) :
        /\ call' = [op |-> "apply_strategy_variability", copy |-> "server",
                    strategy_result_id |-> strategy_result_id,
                    variability |-> variability,
                    result |-> result]
        /\ UNCHANGED <<team_roster, available_players, teams_data, sim>>

ExecuteStrategyWithVariability ==
    /\ call.op = "init"
    /\ \E name \in AVAILABLE_STRATEGIES \ {"manual"}, variability \in Levels :
      LET optimal_pick == strategy_call(name, available_players, team_roster)
      IN  \E rand_val \in variability_draws(available_players, optimal_pick,
                                            variability) :
            /\ call' = [op |-> "execute_strategy_with_variability",
                        copy |-> "browser", name |-> name,
                        variability |-> variability,
                        optimal_pick |-> optimal_pick,
                        result |-> execute_strategy_with_variability(name,
                                      available_players, team_roster,
                                      variability, rand_val)]
            /\ UNCHANGED <<team_roster, available_players, teams_data, sim>>

\* server copy: optimal_pick = strategy(...); None when it is None, else
\* apply_strategy_variability(available_players_df, optimal_pick, variability)
ApiExecuteStrategyWithVariability ==
    /\ call.op = "init"
    /\ \E name \in Api_AVAILABLE_STRATEGIES, variability \in Levels :
      \E optimal_pick \in Api_strategy_call(name, available_players, team_roster) :
        \E result \in IF optimal_pick = None THEN {None}
                      ELSE Api_apply_strategy_variability(available_players,
                                                  optimal_pick, variability) :
            /\ call' = [op |-> "execute_strategy_with_variability",
                        copy |-> "server", name |-> name,
                        variability |-> variability,
                        optimal_pick |-> optimal_pick,
                        result |-> result]
            /\ UNCHANGED <<team_roster, available_players, teams_data, sim>>

NextVariability ==
    \/ ApplyStrategyVariability \/ ApiApplyStrategyVariability
    \/ ExecuteStrategyWithVariability \/ ApiExecuteStrategyWithVariability

SpecVariability == InitVariability /\ [][NextVariability]_vars

(***************************************************************************)
(* The turn scheduler: get_current_team, the local function of             *)
(* simulate_draft_until_my_turn.  Python's // and % on a pick number >= 1  *)
(* and a team count >= 1 are \div and %.                                   *)
(***************************************************************************)

\* snake draft without the reversal of odd rounds
get_current_team_never_reversed(pick_number, num_teams, draft_style) ==
    ((pick_number - 1) % num_teams) + 1

\* browser copy
get_current_team(pick_number, num_teams, draft_style) ==
    LET round_num == (pick_number - 1) \div num_teams
        position == (pick_number - 1) % num_teams
    IN  IF draft_style = "snake"
        THEN IF round_num % 2 = 0 THEN position + 1 ELSE num_teams - position
        ELSE position + 1

\* server copy
Api_get_current_team(pick_number, num_teams, draft_style) ==
    LET round_num == (pick_number - 1) \div num_teams
        position == (pick_number - 1) % num_teams
    IN  IF draft_style = "snake"
        THEN IF round_num % 2 = 0 THEN position + 1 ELSE num_teams - position
        ELSE position + 1

\* the largest pick number and team count the scheduler is asked about
MaxPick == 21
MaxTeams == 10

\* the draft styles a caller sends; any style but "snake" is drafted linearly
DraftStyles == {"snake", "linear", "auction"}

InitTurn ==
    /\ team_roster = <<>>
    /\ available_players = <<>>
    /\ call = [op |-> "init"]
    /\ teams_data = <<>>
    /\ sim = NoSim

GetCurrentTeam ==
    /\ call.op = "init"
    /\ \E pick_number \in 1..MaxPick, num_teams \in 1..MaxTeams,
          draft_style \in DraftStyles :
        /\ call' = [op |-> "get_current_team", copy |-> "browser",
                    pick_number |-> pick_number, num_teams |-> num_teams,
                    draft_style |-> draft_style,
                    result |-> get_current_team(pick_number, num_teams,
                                                draft_style)]
        /\ UNCHANGED <<team_roster, available_players, teams_data, sim>>

ApiGetCurrentTeam ==
    /\ call.op = "init"
    /\ \E pick_number \in 1..MaxPick, num_teams \in 1..MaxTeams,
          draft_style \in DraftStyles :
        /\ call' = [op |-> "get_current_team", copy |-> "server",
                    pick_number |-> pick_number, num_teams |-> num_teams,
                    draft_style |-> draft_style,
                    result |-> Api_get_current_team(pick_number, num_teams,
                                                    draft_style)]
        /\ UNCHANGED <<team_roster, available_players, teams_data, sim>>

NextTurn == GetCurrentTeam \/ ApiGetCurrentTeam

SpecTurn == InitTurn /\ [][NextTurn]_vars

(***************************************************************************)
(* simulate_draft_until_my_turn.  The caller hands in available_players    *)
(* and teams_data (team id -> roster, ids 1..num_teams); the arguments     *)
(* current_pick, my_team_id, num_teams, draft_style and team_variability   *)
(* are kept in the call record, the function's locals in sim:              *)
(*   pc               "loop" at the head of the while loop, "returned"     *)
(*                    after the return, "raised" when an exception left    *)
(*                    the function                                         *)
(*   sim_players      the scratch list of players                          *)
(*   players_object   the list object sim_players names                    *)
(*   team_rosters     team id -> TeamRoster                                *)
(*   pick, picks_simulated                                                 *)
(* One action is one pass through the loop body.                           *)
(***************************************************************************)

\* "while picks_simulated < 20"
PickCap == 20

\* team_variability.get(current_team_id, 0.3), in hundredths
DefaultTeamVariability == 30

team_var(team_variability, current_team_id) ==
    IF current_team_id \in DOMAIN team_variability
    THEN team_variability[current_team_id]
    ELSE DefaultTeamVariability

\* sim_players naming the caller's own list instead of a copy
aliased_object == "caller"

\* copy.deepcopy(available_players): sim_players names a new list object
deepcopy_object == "copy"

\* the locals when the loop is entered
simulation_start ==
    [pc |-> "loop",
     sim_players |-> available_players,
     players_object |-> deepcopy_object,
     team_rosters |-> teams_data,
     pick |-> 0,
     picks_simulated |-> 0]

\* the team on the clock at the head of the loop
current_team_id ==
    IF call.copy = "browser"
    THEN get_current_team(sim.pick, call.num_teams, call.draft_style)
    ELSE Api_get_current_team(sim.pick, call.num_teams, call.draft_style)

\* the loop is at its head, in the copy
InLoop(copy) ==
    /\ sim.pc = "loop"
    /\ call.copy = copy

\* the loop body entered without the test of the while condition
Selecting_without_cap(copy) ==
    /\ InLoop(copy)
    /\ current_team_id # call.my_team_id
    /\ sim.sim_players # <<>>

\* the loop body entered without the test for the caller's own turn
Selecting_on_my_turn(copy) ==
    /\ InLoop(copy)
    /\ sim.picks_simulated < PickCap
    /\ sim.sim_players # <<>>

\* the loop body is entered and passes both stop tests
Selecting(copy) ==
    /\ InLoop(copy)
    /\ sim.picks_simulated < PickCap
    /\ current_team_id # call.my_team_id
    /\ sim.sim_players # <<>>

\* the function has returned sim_players
Return == sim' = [sim EXCEPT !.pc = "returned"]

\* the list without the player of the id
without_player(players, id) == SelectSeq(players, LAMBDA p : p.id # id)

\* the player of the id in the list
player_of(players, id) ==
    players[CHOOSE i \in DOMAIN players : players[i].id = id]

\* the rest of the loop body once selected_player_id is a player's id: the
\* player is removed from sim_players and put on the picking team's roster.
\* A list that is the caller's own object changes for the caller too.
Drafted(selected_player_id) ==
    LET selected_player == player_of(sim.sim_players, selected_player_id)
        rest == without_player(sim.sim_players, selected_player_id)
    IN  /\ sim' = [sim EXCEPT
                     !.sim_players = rest,
                     !.team_rosters[current_team_id] =
                         add_player_to_roster(@, selected_player),
                     !.picks_simulated = @ + 1,
                     !.pick = @ + 1]
        /\ available_players' = IF sim.players_object = "caller"
                                THEN rest ELSE available_players

\* "while picks_simulated < 20" is false
SimStopCap ==
    /\ sim.pc = "loop"
    /\ sim.picks_simulated >= PickCap
    /\ Return
    /\ UNCHANGED <<team_roster, available_players, call, teams_data>>

\* "if current_team_id == my_team_id: break"
SimStopMyTurn ==
    /\ sim.pc = "loop"
    /\ sim.picks_simulated < PickCap
    /\ current_team_id = call.my_team_id
    /\ Return
    /\ UNCHANGED <<team_roster, available_players, call, teams_data>>

\* "if not sim_players: break"
SimStopNoPlayers ==
    /\ sim.pc = "loop"
    /\ sim.picks_simulated < PickCap
    /\ current_team_id # call.my_team_id
    /\ sim.sim_players = <<>>
    /\ Return
    /\ UNCHANGED <<team_roster, available_players, call, teams_data>>

\* browser copy: random.choice over the keys of AVAILABLE_STRATEGIES drew
\* "manual", whose entry is None: calling it raises TypeError
SimDrawManual ==
    /\ Selecting("browser")
    /\ "manual" \in AVAILABLE_STRATEGIES
    /\ sim' = [sim EXCEPT !.pc = "raised"]
    /\ UNCHANGED <<team_roster, available_players, call, teams_data>>

\* browser copy: a strategy was drawn and selected a player
SimPick ==
    /\ Selecting("browser")
    /\ \E random_strategy_name \in AVAILABLE_STRATEGIES \ {"manual"},
          current_team \in {sim.team_rosters[current_team_id]},
          team_variability \in {team_var(call.team_variability, current_team_id)} :
         \E optimal_pick \in {strategy_call(random_strategy_name,
                                            sim.sim_players, current_team)} :
           \E rand_val \in variability_draws(sim.sim_players, optimal_pick,
                                             team_variability) :
             \E selected_player_id \in
                    {execute_strategy_with_variability(random_strategy_name,
                         sim.sim_players, current_team, team_variability,
                         rand_val)} :
                 /\ selected_player_id # None
                 /\ Drafted(selected_player_id)
    /\ UNCHANGED <<team_roster, call, teams_data>>

\* the strategy drawn selected no player and the loop went on to the next pick
SimNoSelection_continue ==
    /\ Selecting("browser")
    /\ \E random_strategy_name \in AVAILABLE_STRATEGIES \ {"manual"} :
         strategy_call(random_strategy_name, sim.sim_players,
                       sim.team_rosters[current_team_id]) = None
    /\ sim' = [sim EXCEPT !.pick = @ + 1]
    /\ UNCHANGED <<team_roster, available_players, call, teams_data>>

\* browser copy: the strategy drawn selected no player: break
SimNoSelection ==
    /\ Selecting("browser")
    /\ \E random_strategy_name \in AVAILABLE_STRATEGIES \ {"manual"} :
         strategy_call(random_strategy_name, sim.sim_players,
                       sim.team_rosters[current_team_id]) = None
    /\ Return
    /\ UNCHANGED <<team_roster, available_players, call, teams_data>>

\* server copy: a strategy was drawn and selected a player
ApiSimPick ==
    /\ Selecting("server")
    /\ \E random_strategy_name \in Api_AVAILABLE_STRATEGIES :
         LET current_team == sim.team_rosters[current_team_id]
             team_variability == team_var(call.team_variability, current_team_id)
         IN  \E optimal_pick \in Api_strategy_call(random_strategy_name,
                                     sim.sim_players, current_team) \ {None} :
               \E selected_player_id \in
                      Api_apply_strategy_variability(sim.sim_players,
                          optimal_pick, team_variability) :
                   Drafted(selected_player_id)
    /\ UNCHANGED <<team_roster, call, teams_data>>

\* server copy: the strategy drawn selected no player: break
ApiSimNoSelection ==
    /\ Selecting("server")
    /\ \E random_strategy_name \in Api_AVAILABLE_STRATEGIES :
         None \in Api_strategy_call(random_strategy_name, sim.sim_players,
                                    sim.team_rosters[current_team_id])
    /\ Return
    /\ UNCHANGED <<team_roster, available_players, call, teams_data>>

\* one pass through the loop body, in either copy
SimulationStep ==
    \/ SimStopCap \/ SimStopMyTurn \/ SimStopNoPlayers
    \/ SimDrawManual \/ SimPick \/ SimNoSelection
    \/ ApiSimPick \/ ApiSimNoSelection

(***************************************************************************)
(* The simulator's inputs                                                  *)
(***************************************************************************)

MaxSimPool == 3
MaxSimTeams == 2

\* player k of the simulator's draft board: ids 1.., positions in turn, unique
\* ranks that are not in list order, every second player with tier data
SimPlayer(k) ==
    Player(k, PlayerPositions[((k - 1) % Len(PlayerPositions)) + 1],
           ((k * 7) % (PickCap + 3)) + 1,
           IF k % 2 = 1 THEN NoTier ELSE ((k \div 2) % 3) + 1)

\* the first n players of the board
SimBoard(n) == [k \in 1..n |-> SimPlayer(k)]

\* a late-draft board long enough for the loop to reach its cap:
\* quarterbacks, defences and kickers, none with tier data
LongBoard ==
    [k \in 1..(PickCap + 2) |->
        Player(k, <<"QB", "DST", "K">>[(k % 3) + 1],
               ((k * 7) % (PickCap + 3)) + 1, NoTier)]

\* a league of n teams that have each made the first k picks of the draft
\* order
League(n, k) ==
    [team_id \in 1..n |->
        RosterAfter(EmptyRoster(LeagueSlots(NumBench)), PicksFrom(0, k))]

\* the leagues: no pick made yet, only DST and K left, full rosters
Leagues ==
    {League(n, k) : n \in 1..MaxSimTeams,
                    k \in {0, Len(LeagueSlots(NumBench)) - 2,
                           Len(LeagueSlots(NumBench))}}

\* one team with room for more picks than the cap
LongLeague == <<EmptyRoster(LeagueSlots(PickCap))>>

\* the team_variability dicts: none given, or every team at level 0
TeamVariabilities(num_teams) == {<<>>, [team_id \in 1..num_teams |-> 0]}

\* the arguments of a call: num_teams is the number of teams handed in; a
\* my_team_id of num_teams + 1 is a team that is never on the clock.  The
\* long board is simulated once, for such a team, the picking team at level 0.
Arguments ==
    LET num_teams == Len(teams_data)
    IN  IF available_players = LongBoard
        THEN {[current_pick |-> 1, my_team_id |-> num_teams + 1,
               num_teams |-> num_teams, draft_style |-> "snake",
               team_variability |-> <<0>>]}
        ELSE [current_pick : 1..(num_teams + 1),
              my_team_id : 1..(num_teams + 1),
              num_teams : {num_teams},
              draft_style : {"snake", "linear"},
              team_variability : TeamVariabilities(num_teams)]

\* the boards: the first n players, or the head of the late-draft board (a
\* defence, a kicker, a quarterback ...); or the long board with its league
InitSimulator ==
    /\ team_roster = <<>>
    /\ \/ /\ available_players \in {SimBoard(n) : n \in 0..MaxSimPool}
                                      \cup {SubSeq(LongBoard, 1, MaxSimPool)}
          /\ teams_data \in Leagues
       \/ /\ available_players = LongBoard
          /\ teams_data = LongLeague
    /\ call = [op |-> "init"]
    /\ sim = NoSim

\* the call record of an entry point
Called(op, copy, arguments) ==
    [op |-> op, copy |-> copy,
     current_pick |-> arguments.current_pick,
     my_team_id |-> arguments.my_team_id,
     num_teams |-> arguments.num_teams,
     draft_style |-> arguments.draft_style,
     team_variability |-> arguments.team_variability]

\* browser copy: the function is called and reaches its loop
SimulateDraftUntilMyTurn ==
    /\ call.op = "init"
    /\ \E arguments \in Arguments :
         /\ call' = Called("simulate_draft_until_my_turn", "browser", arguments)
         /\ sim' = [simulation_start EXCEPT !.pick = arguments.current_pick + 1]
    /\ UNCHANGED <<team_roster, available_players, teams_data>>

\* server copy
ApiSimulateDraftUntilMyTurn ==
    /\ call.op = "init"
    /\ \E arguments \in Arguments :
         /\ call' = Called("simulate_draft_until_my_turn", "server", arguments)
         /\ sim' = [simulation_start EXCEPT !.pick = arguments.current_pick + 1]
    /\ UNCHANGED <<team_roster, available_players, teams_data>>

NextSimulator ==
    \/ SimulateDraftUntilMyTurn \/ ApiSimulateDraftUntilMyTurn
    \/ SimulationStep

SpecSimulator == InitSimulator /\ [][NextSimulator]_vars

\* the function is one sequential loop: a step that can be taken is taken
SpecSimulatorFair == SpecSimulator /\ WF_vars(NextSimulator)

(***************************************************************************)
(* predict_availability.  The function's locals are kept in the call       *)
(* record next to its arguments:                                           *)
(*   trials              the number of trials asked for                    *)
(*   trial               the trials finished so far                        *)
(*   player_taken_count  player id -> trials in which the player was taken *)
(*   result              what the function returned, NoResult before       *)
(* Each trial runs simulate_draft_until_my_turn, step by step, on the      *)
(* caller's available_players and teams_data.                              *)
(***************************************************************************)

\* the most trials a call asks for
MaxTrials == 2

NoResult == [kind |-> "none"]

\* the result of a call that caught an exception
ErrorResult == [kind |-> "error"]

\* round(1.0 - taken_count / trials, 3), in thousandths; a tie goes to the
\* even neighbour
availability_probability(taken_count, trials) ==
    LET n == 1000 * (trials - taken_count)
        q == n \div trials
        r == n % trials
    IN  IF 2 * r < trials THEN q
        ELSE IF 2 * r > trials THEN q + 1
        ELSE IF q % 2 = 0 THEN q ELSE q + 1

\* the ids of the players of a list
player_ids(players) == {players[i].id : i \in DOMAIN players}

\* the callers' inputs are those of the simulator
InitEstimator == InitSimulator

\* the call record once the counts are initialised
Predicting(copy, arguments, trials) ==
    Called("predict_availability", copy, arguments)
    @@ [trials |-> trials,
        trial |-> 0,
        player_taken_count |-> [id \in player_ids(available_players) |-> 0],
        result |-> NoResult]

\* browser copy: the function is called
PredictAvailability ==
    /\ call.op = "init"
    /\ \E arguments \in Arguments, trials \in 1..MaxTrials :
         call' = Predicting("browser", arguments, trials)
    /\ UNCHANGED <<team_roster, available_players, teams_data, sim>>

\* server copy
ApiPredictAvailability ==
    /\ call.op = "init"
    /\ \E arguments \in Arguments, trials \in 1..MaxTrials :
         call' = Predicting("server", arguments, trials)
    /\ UNCHANGED <<team_roster, available_players, teams_data, sim>>

\* the function is running and no simulation is
BetweenTrials ==
    /\ call.op = "predict_availability"
    /\ call.result = NoResult
    /\ sim.pc = "idle"

\* "for trial in range(trials)": the next trial calls the simulator
TrialStart ==
    /\ BetweenTrials
    /\ call.trial < call.trials
    /\ sim' = [simulation_start EXCEPT !.pick = call.current_pick + 1]
    /\ UNCHANGED <<team_roster, available_players, call, teams_data>>

\* server copy: remaining_players['id'] on the DataFrame of an empty list of
\* players, which has no columns, raises KeyError
remaining_ids_raise ==
    call.copy = "server" /\ available_players = <<>>

\* the simulator returned: the players missing from its output are counted
TrialEnd ==
    /\ call.op = "predict_availability"
    /\ sim.pc = "returned"
    /\ ~remaining_ids_raise
    /\ call' = [call EXCEPT
                  !.trial = @ + 1,
                  !.player_taken_count =
                      [player_id \in DOMAIN @ |->
                          IF player_id \in player_ids(sim.sim_players)
                          THEN @[player_id] ELSE @[player_id] + 1]]
    /\ sim' = NoSim
    /\ UNCHANGED <<team_roster, available_players, teams_data>>

ApiTrialRaises ==
    /\ call.op = "predict_availability"
    /\ sim.pc = "returned"
    /\ remaining_ids_raise
    /\ sim' = [sim EXCEPT !.pc = "raised"]
    /\ UNCHANGED <<team_roster, available_players, call, teams_data>>

\* "except Exception as e": the error is returned
PredictCatch ==
    /\ call.op = "predict_availability"
    /\ sim.pc = "raised"
    /\ call' = [call EXCEPT !.result = ErrorResult]
    /\ sim' = NoSim
    /\ UNCHANGED <<team_roster, available_players, teams_data>>

\* all trials ran: the probabilities are computed and returned
PredictReturn ==
    /\ BetweenTrials
    /\ call.trial = call.trials
    /\ call' = [call EXCEPT !.result =
                  [kind |-> "predictions",
                   availability_predictions |->
                       [player_id \in DOMAIN call.player_taken_count |->
                           availability_probability(
                               call.player_taken_count[player_id], call.trials)],
                   trials_completed |-> call.trials]]
    /\ UNCHANGED <<team_roster, available_players, teams_data, sim>>

NextEstimator ==
    \/ PredictAvailability \/ ApiPredictAvailability
    \/ TrialStart \/ SimulationStep \/ TrialEnd \/ ApiTrialRaises
    \/ PredictCatch \/ PredictReturn

SpecEstimator == InitEstimator /\ [][NextEstimator]_vars

(***************************************************************************)
(* auto_draft_player (browser) and auto_draft (server): one pick for one   *)
(* team, by the strategy named                                             *)
(***************************************************************************)

\* the strategy names a caller sends: every key of both registries, one of
\* them in upper case, and a name neither registry holds
StrategyNames ==
    AVAILABLE_STRATEGIES \cup Api_AVAILABLE_STRATEGIES \cup {"BPA", "unknown"}

\* strategy.lower()
lower(strategy) == IF strategy = "BPA" THEN "bpa" ELSE strategy

\* the results: {"error": ...}, the result with player_id None, and the
\* result naming the selected player
Error(message) == [kind |-> "error", error |-> message]
NoSelection == [kind |-> "no_selection", player_id |-> None]
Selected(selected_player_id) ==
    [kind |-> "selected", player_id |-> selected_player_id]

\* the result once the strategy returned selected_player_id
selection_result(players, selected_player_id) ==
    IF selected_player_id = None THEN NoSelection
    ELSE IF selected_player_id \notin player_ids(players)
         THEN Error("Selected player not found")
         ELSE Selected(selected_player_id)

\* browser copy; the registry's "manual" entry is None, and calling it raises
\* TypeError, which the except clause turns into an error result
auto_draft_player(players, roster, strategy, variability, rand_val) ==
    IF lower(strategy) \notin AVAILABLE_STRATEGIES
    THEN Error("Unknown strategy")
    ELSE IF lower(strategy) = "manual"
    THEN Error("'NoneType' object is not callable")
    ELSE selection_result(players,
            IF variability > 0
            THEN execute_strategy_with_variability(lower(strategy), players,
                                                   roster, variability, rand_val)
            ELSE strategy_call(lower(strategy), players, roster))

\* server copy: the results the call can give.  The DataFrame of an empty
\* list of players has no columns, and the strategy's read of its 'position'
\* column raises KeyError, which the except clause turns into an error result
Api_auto_draft(players, roster, strategy, variability) ==
    IF lower(strategy) \notin Api_AVAILABLE_STRATEGIES
    THEN {Error("Unknown strategy")}
    ELSE IF players = <<>>
    THEN {Error("'position'")}
    ELSE {selection_result(players, selected_player_id) :
            selected_player_id \in
                UNION {IF variability > 0 /\ optimal_pick # None
                       THEN Api_apply_strategy_variability(players, optimal_pick,
                                                           variability)
                       ELSE {optimal_pick} :
                         optimal_pick \in Api_strategy_call(lower(strategy),
                                                            players, roster)}}

InitAutoDraft ==
    /\ team_roster \in BoardRosters
    /\ available_players \in BoardLists
    /\ call = [op |-> "init"]
    /\ teams_data = <<>>
    /\ sim = NoSim

AutoDraftPlayer ==
    /\ call.op = "init"
    /\ \E strategy \in StrategyNames, variability \in {0, DefaultTeamVariability} :
         \E optimal_pick \in
                {IF lower(strategy) \in AVAILABLE_STRATEGIES \ {"manual"}
                 THEN strategy_call(lower(strategy), available_players,
                                    team_roster)
                 ELSE None} :
           \E rand_val \in variability_draws(available_players, optimal_pick,
                                             variability) :
             call' = [op |-> "auto_draft_player", copy |-> "browser",
                      strategy |-> strategy, variability |-> variability,
                      result |-> auto_draft_player(available_players,
                                     team_roster, strategy, variability,
                                     rand_val)]
    /\ UNCHANGED <<team_roster, available_players, teams_data, sim>>

ApiAutoDraft ==
    /\ call.op = "init"
    /\ \E strategy \in StrategyNames, variability \in {0, DefaultTeamVariability} :
         \E result \in Api_auto_draft(available_players, team_roster, strategy,
                                      variability) :
             call' = [op |-> "auto_draft", copy |-> "server",
                      strategy |-> strategy, variability |-> variability,
                      result |-> result]
    /\ UNCHANGED <<team_roster, available_players, teams_data, sim>>

NextAutoDraft == AutoDraftPlayer \/ ApiAutoDraft

SpecAutoDraft == InitAutoDraft /\ [][NextAutoDraft]_vars

(***************************************************************************)
(* Claims                                                                  *)
(***************************************************************************)

\* the roster has an empty slot of the type
HasEmptySlot(roster, slot_position) ==
    \E i \in DOMAIN roster :
        roster[i].position = slot_position /\ ~roster[i].is_filled

\* the players of the pool whose position satisfies can_fill_position
Draftable ==
    {i \in DOMAIN available_players :
        can_fill_position(team_roster, available_players[i].position)}

\* the QB-scarcity rule: no QB held, or one QB held and the round is past 9
QBRuleAdmits ==
    \/ count_position(team_roster, "QB") = 0
    \/ /\ count_position(team_roster, "QB") = 1
       /\ get_round_number(team_roster) > 9

\* the positions of the pool's players with the id
PositionsOf(id) ==
    {available_players[i].position :
        i \in {i \in DOMAIN available_players : available_players[i].id = id}}

\* C1 (as claimed): can_fill_position(p) is true exactly when the roster has an
\* empty slot of type p, or p is RB/WR/TE and a FLEX slot is empty, or a BENCH
\* slot is empty.
C1_CanFillIffSlotFlexOrBench ==
    call.op = "can_fill_position" =>
        (call.result <=>
            \/ HasEmptySlot(team_roster, call.position)
            \/ /\ call.position \in {"RB", "WR", "TE"}
               /\ HasEmptySlot(team_roster, "FLEX")
            \/ HasEmptySlot(team_roster, "BENCH"))

\* C2 (as claimed): a strategy returns None only when no available player's
\* position satisfies can_fill_position.
C2_NoneOnlyWhenNothingDraftable ==
    (call.op = "strategy" /\ call.result = None) => Draftable = {}

\* C2 (amended): a strategy returns None only when no available player is one
\* it may select.  Server registry: only when no available player is draftable.
\* Browser registry: only when every draftable available player is a DST, a K,
\* or a QB that the QB-scarcity rule excludes.
C2_NoneOnlyWhenNoCandidate ==
    (call.op = "strategy" /\ call.result = None) =>
        \A i \in Draftable :
            /\ call.copy = "browser"
            /\ \/ available_players[i].position \in {"DST", "K"}
               \/ available_players[i].position = "QB" /\ ~QBRuleAdmits

\* C2 witness: a browser strategy returned None although a player is draftable
C2_Witness ==
    /\ call.op = "strategy"
    /\ call.copy = "browser"
    /\ call.result = None
    /\ Draftable # {}

\* C3: the id a strategy returns is the id of a player of the pool whose
\* position satisfies can_fill_position on the roster.
C3_ResultIsDraftablePoolPlayer ==
    (call.op = "strategy" /\ call.result # None) =>
        \E i \in Draftable : available_players[i].id = call.result

\* C3 witness: a strategy returned an id while some player of the pool was not
\* draftable
C3_Witness ==
    /\ call.op = "strategy"
    /\ call.result # None
    /\ Draftable # DOMAIN available_players

\* C4 (as claimed): Best-Player-Available returns the id of the least-rank
\* player among all draftable players, of any position (None when there is
\* none).
C4_BPAIsBestDraftable ==
    (call.op = "strategy" /\ call.name = "bpa") =>
        IF Draftable = {} THEN call.result = None
        ELSE \E i \in Draftable :
                /\ available_players[i].id = call.result
                /\ \A j \in Draftable :
                      available_players[i].rank <= available_players[j].rank

\* C5: on a pool in which no player has a tier, Tier-Based returns what
\* Best-Player-Available returns on the same pool and roster.
C5_TierEqualsBPAWithoutTiers ==
    ( /\ call.op = "strategy"
      /\ call.name = "tier"
      /\ \A i \in DOMAIN available_players : available_players[i].tier = NoTier )
    => IF call.copy = "browser"
       THEN call.result =
                BestPlayerAvailableStrategy(available_players, team_roster)
       ELSE call.result \in
                Api_BestPlayerAvailableStrategy(available_players, team_roster)

\* C5 witness: Tier-Based picked a player from a pool without tiers
C5_Witness ==
    /\ call.op = "strategy"
    /\ call.name = "tier"
    /\ call.result # None
    /\ Len(available_players) >= 2
    /\ \A i \in DOMAIN available_players : available_players[i].tier = NoTier

\* C6 (as claimed): on a roster with exactly one empty slot that holds no DST,
\* and a pool with a DST the roster can still fill, every strategy returns the
\* id of a DST.
C6_LastSlotForcesDST ==
    ( /\ call.op = "strategy"
      /\ Len(get_empty_slots(team_roster)) = 1
      /\ count_position(team_roster, "DST") = 0
      /\ can_fill_position(team_roster, "DST")
      /\ \E i \in DOMAIN available_players : available_players[i].position = "DST" )
    => PositionsOf(call.result) = {"DST"}

\* C7 (as claimed): a strategy returns a QB only if the roster holds no QB, or
\* holds one QB and the round number is greater than 9.
C7_QBOnlyUnderQBRule ==
    (call.op = "strategy" /\ "QB" \in PositionsOf(call.result)) => QBRuleAdmits

\* the ids the Variability Selector can return for the call's inputs
Outcomes(strategy_result_id) ==
    IF call.copy = "browser"
    THEN {apply_strategy_variability(available_players, strategy_result_id,
                                     call.variability, rand_val) :
            rand_val \in variability_draws(available_players, strategy_result_id,
                                           call.variability)}
    ELSE Api_apply_strategy_variability(available_players, strategy_result_id,
                                        call.variability)

\* the ids of the first n players of the list in ascending rank
TopIds(n) ==
    {available_players[i].id :
        i \in {i \in DOMAIN available_players :
                 Cardinality({j \in DOMAIN available_players :
                     available_players[j].rank < available_players[i].rank}) < n}}

\* C8: apply_strategy_variability with a level <= 0 returns the optimal id
\* unchanged, for every list (the empty one included) and every optimal id.
C8_LevelZeroKeepsOptimal ==
    (call.op = "apply_strategy_variability" /\ call.variability <= 0) =>
        call.result = call.strategy_result_id

\* C8 witness: level 0, and the optimal id is in the list without being its
\* best-ranked player
C8_Witness ==
    /\ call.op = "apply_strategy_variability"
    /\ call.variability = 0
    /\ call.strategy_result_id \in TopIds(Len(available_players))
    /\ call.strategy_result_id \notin TopIds(1)

\* C9: for a level v > 0 and a list of N players that holds the optimal id, the
\* selector returns a player at an index i < min(10, N) of the rank-sorted list:
\* i < 4 when v <= 0.3, i < 5 when 0.3 < v <= 0.6, i < 9 when 0.6 < v <= 0.7;
\* and when v > 0.7 every index below min(10, N) is a possible outcome.
C9_ShortlistIndexBounds ==
    ( /\ call.op = "apply_strategy_variability"
      /\ call.variability > 0
      /\ call.strategy_result_id \in TopIds(Len(available_players)) )
    => /\ call.result \in TopIds(Min(10, Len(available_players)))
       /\ call.variability <= 30 => call.result \in TopIds(4)
       /\ (30 < call.variability /\ call.variability <= 60)
              => call.result \in TopIds(5)
       /\ (60 < call.variability /\ call.variability <= 70)
              => call.result \in TopIds(9)
       /\ call.variability > 70
              => Outcomes(call.strategy_result_id)
                    = TopIds(Min(10, Len(available_players)))

\* C9 witness: above 0.7, from a list of more than 10 players, the selector
\* returned the player at index 9
C9_Witness ==
    /\ call.op = "apply_strategy_variability"
    /\ call.variability > 70
    /\ Len(available_players) > 10
    /\ call.strategy_result_id \in TopIds(Len(available_players))
    /\ call.result \in TopIds(10) \ TopIds(9)

\* C10 (as claimed): for every level > 0 the player the strategy chose is the
\* shortlist entry at index 0 and is one of the selector's possible outcomes.
C10_OptimalIsIndexZeroAndPossible ==
    ( /\ call.op = "execute_strategy_with_variability"
      /\ call.variability > 0
      /\ call.optimal_pick # None )
    => /\ TopIds(1) = {call.optimal_pick}
       /\ call.optimal_pick \in Outcomes(call.optimal_pick)

\* C11 (as claimed): for every level > 0, the id execute_strategy_with_variability
\* returns belongs to a player whose position satisfies can_fill_position on the
\* picking team's roster.
C11_SelectorReturnsDraftable ==
    ( /\ call.op = "execute_strategy_with_variability"
      /\ call.variability > 0
      /\ call.result # None )
    => \E i \in Draftable : available_players[i].id = call.result

\* C12: with round = (p-1) div n and pos = (p-1) mod n, the turn scheduler
\* returns pos+1 under linear style, and under snake style pos+1 in even rounds
\* and n-pos in odd rounds; for snake with n = 10, picks 1, 10, 11, 20 go to
\* teams 1, 10, 10, 1.
C12_TurnScheduler ==
    call.op = "get_current_team" =>
        LET p == call.pick_number
            n == call.num_teams
            round == (p - 1) \div n
            pos == (p - 1) % n
        IN  /\ call.draft_style = "linear" => call.result = pos + 1
            /\ (call.draft_style = "snake" /\ round % 2 = 0)
                   => call.result = pos + 1
            /\ (call.draft_style = "snake" /\ round % 2 = 1)
                   => call.result = n - pos
            /\ (call.draft_style = "snake" /\ n = 10)
                   => /\ p = 1 => call.result = 1
                      /\ p = 10 => call.result = 10
                      /\ p = 11 => call.result = 10
                      /\ p = 20 => call.result = 1

\* C12 witness: snake with 10 teams, pick 11 went to team 10
C12_Witness ==
    /\ call.op = "get_current_team"
    /\ call.draft_style = "snake"
    /\ call.num_teams = 10
    /\ call.pick_number = 11
    /\ call.result = 10

\* C13 (as claimed): the strategy drawn for a simulated pick is a strategy of
\* the registry and never the "manual" entry, so that no simulation run fails
\* because of the strategy draw.
C13_StrategyDrawNeverFails == sim.pc # "raised"

\* C14: every run of the simulator terminates, and at no point has it
\* simulated more than 20 picks or removed more than 20 players from the
\* scratch pool.
C14_TerminatesWithinCap ==
    /\ <>(sim.pc \in {"returned", "raised"})
    /\ [](sim.pc # "idle" =>
            /\ sim.picks_simulated <= 20
            /\ Len(available_players) - Len(sim.sim_players) <= 20)

\* a run that returned because the cap of 20 simulated picks was reached,
\* with players left in the scratch pool
C14_Witness ==
    /\ sim.pc = "returned"
    /\ sim.picks_simulated = 20
    /\ Len(available_players) - Len(sim.sim_players) = 20
    /\ sim.sim_players # <<>>

\* the type of the slot a step filled on team_roster
FilledSlotPosition ==
    LET i == CHOOSE i \in DOMAIN team_roster :
                 ~team_roster[i].is_filled /\ team_roster'[i].is_filled
    IN  team_roster[i].position

\* C15 (as claimed): a drafted player goes into an empty slot of their own
\* position if there is one, otherwise into an empty FLEX slot if the player
\* is RB, WR or TE, otherwise into an empty BENCH slot, whatever the order of
\* the slots in the roster list.
C15_SlotPriority ==
    [][(call'.op = "add_player_to_roster" /\ team_roster' # team_roster) =>
          FilledSlotPosition =
              IF HasEmptySlot(team_roster, call'.position)
              THEN call'.position
              ELSE IF /\ call'.position \in {"RB", "WR", "TE"}
                      /\ HasEmptySlot(team_roster, "FLEX")
                   THEN "FLEX"
                   ELSE "BENCH"]_vars

\* the empty slots of the roster
EmptySlots(roster) == Cardinality({i \in DOMAIN roster : ~roster[i].is_filled})

\* the still-unmet DST/K needs of the roster: a position counts when no
\* player of it is held and a slot can still take one
UnmetDstKNeeds(roster) ==
    Cardinality({position \in {"DST", "K"} :
        /\ \A i \in DOMAIN roster :
               roster[i].is_filled => roster[i].player.position # position
        /\ \/ HasEmptySlot(roster, position)
           \/ HasEmptySlot(roster, "BENCH")})

\* C20 (as claimed): must_draft_dst_or_k() is true iff the number of empty
\* slots exactly equals the number of still-unmet DST/K needs and that number
\* is greater than zero.
C20_MustDraftIffExactlyEqual ==
    call.op = "must_draft_dst_or_k" =>
        (call.result <=> /\ UnmetDstKNeeds(team_roster) > 0
                         /\ EmptySlots(team_roster) = UnmetDstKNeeds(team_roster))

\* C20 (amended): must_draft_dst_or_k() is true iff the number of still-unmet
\* DST/K needs is greater than zero and the number of empty slots is at most
\* that number.
C20_MustDraftIffAtMost ==
    call.op = "must_draft_dst_or_k" =>
        (call.result <=> /\ UnmetDstKNeeds(team_roster) > 0
                         /\ EmptySlots(team_roster) <= UnmetDstKNeeds(team_roster))

\* the query answers True on a roster with one empty slot and both needs unmet
C20_Witness ==
    /\ call.op = "must_draft_dst_or_k"
    /\ call.result
    /\ EmptySlots(team_roster) = 1
    /\ UnmetDstKNeeds(team_roster) = 2

\* C16: no operation changes its inputs: over every strategy call, simulator
\* step and estimator trial the caller's list of available players and team
\* roster data stay what they were, and every trial starts from them.
C16_InputsNeverMutated ==
    [][/\ available_players' = available_players
       /\ teams_data' = teams_data
       /\ (sim.pc = "idle" /\ sim'.pc = "loop") =>
              /\ sim'.sim_players = available_players
              /\ sim'.team_rosters = teams_data]_vars

\* a later trial has removed players from its scratch pool and put one on a
\* roster while the caller's list and rosters are whole
C16_Witness ==
    /\ call.op = "predict_availability"
    /\ call.trial >= 1
    /\ sim.pc = "loop"
    /\ sim.picks_simulated >= 1
    /\ Len(sim.sim_players) < Len(available_players)
    /\ sim.team_rosters # teams_data

\* the caller is team 1 in a league of one team
SoloTeam ==
    /\ call.op = "predict_availability"
    /\ call.num_teams = 1
    /\ call.my_team_id = 1

\* C17: when the caller is team 1 of a league of one team,
\* predict_availability reports availability exactly 1.0 for every originally
\* available player, for any current pick, draft style and trial count >= 1,
\* and no simulated pick ever happens.
C17_SoloTeamAllAvailable ==
    SoloTeam =>
        /\ sim.pc # "idle" => sim.picks_simulated = 0
        /\ call.result # NoResult =>
               \A player_id \in player_ids(available_players) :
                   /\ call.result.kind = "predictions"
                   /\ call.result.availability_predictions[player_id] = 1000

\* a solo-team call, not at the first pick, returned after more than one
\* trial for a pool of several players
C17_Witness ==
    /\ SoloTeam
    /\ call.current_pick > 1
    /\ call.trials > 1
    /\ call.result # NoResult
    /\ Len(available_players) > 1

\* C18 (as claimed): for any trial count T >= 1 predict_availability reports
\* for each originally available player the value 1 - k/T, k the number of
\* trials whose output pool lacks the player; 0 <= k <= T, every value lies in
\* [0, 1], every originally available player has an entry and trialsCompleted
\* equals T.
C18_ReportsOneMinusKOverT ==
    (call.op = "predict_availability" /\ call.result # NoResult) =>
        /\ call.result.kind = "predictions"
        /\ call.result.trials_completed = call.trials
        /\ DOMAIN call.result.availability_predictions
               = player_ids(available_players)
        /\ \A player_id \in player_ids(available_players) :
               LET k == call.player_taken_count[player_id]
                   value == call.result.availability_predictions[player_id]
               IN  /\ k \in 0..call.trials
                   /\ value \in 0..1000
                   /\ value * call.trials = 1000 * (call.trials - k)

\* the registry of the copy that served the call
Registry == IF call.copy = "browser" THEN AVAILABLE_STRATEGIES
            ELSE Api_AVAILABLE_STRATEGIES

\* C19 (as claimed): the pick selection returns an error result only when the
\* strategy name is not in the registry; for every name in the registry it
\* returns a selected player, or the no-selection result with player id
\* null.
C19_ErrorOnlyForUnknownStrategy ==
    call.op \in {"auto_draft_player", "auto_draft"} =>
        /\ call.result.kind = "error" => call.strategy \notin Registry
        /\ call.strategy \in Registry =>
               \/ /\ call.result.kind = "selected"
                  /\ call.result.player_id \in player_ids(available_players)
               \/ call.result = NoSelection

\* the draftable players of the pool at the position
DraftableAt(position) ==
    {i \in Draftable : available_players[i].position = position}

\* the draftable players of the set with the least rank
BestOf(candidates) ==
    {i \in candidates :
        \A j \in candidates : available_players[i].rank <= available_players[j].rank}

\* C23 (as claimed): Positional-Need visits QB, RB, WR, TE, DST, K in order of
\* descending need-priority, ties in that enumeration order, and returns the
\* best-rank draftable player at the first position whose priority is > 0 and
\* that has a draftable player; only when there is no such position does it
\* fall back to Best-Player-Available.
C23_PositionalNeedOrder ==
    (call.op = "strategy" /\ call.name = "positional") =>
        LET priorities == get_position_need_priority(team_roster)
            visited == SortedByPriority(priorities, PlayerPositions)
            hits == {k \in DOMAIN visited :
                        /\ priorities[visited[k]] > 0
                        /\ DraftableAt(visited[k]) # {}}
            first == CHOOSE k \in hits : \A l \in hits : k <= l
            expected == IF hits # {} THEN BestOf(DraftableAt(visited[first]))
                        ELSE BestOf(Draftable)
        IN  IF expected = {} THEN call.result = None
            ELSE call.result \in {available_players[i].id : i \in expected}

\* C24 (as claimed): RB-Heavy takes a QB through its round >= 5 rule only when
\* the roster holds at least 2 WRs: when the RB-forcing rule (round <= 5 and
\* fewer than 3 RBs) and the DST/K override do not apply, the roster holds no
\* QB and fewer than 2 WRs, and both a WR and a QB are draftable, it returns
\* the best WR.
C24_RBHeavyWRBeforeQB ==
    (/\ call.op = "strategy" /\ call.copy = "browser" /\ call.name = "rb_heavy"
     /\ ~(get_round_number(team_roster) <= 5
          /\ count_position(team_roster, "RB") < 3)
     /\ ~Truthy(_handle_dst_k_draft(available_players, team_roster))
     /\ count_position(team_roster, "QB") = 0
     /\ count_position(team_roster, "WR") < 2
     /\ DraftableAt("WR") # {}
     /\ DraftableAt("QB") # {})
    => call.result \in {available_players[i].id : i \in BestOf(DraftableAt("WR"))}

PositionOfId(id) ==
    {available_players[i].position : i \in {j \in DOMAIN available_players : available_players[j].id = id}}

\* C25 (as claimed): Late-QB never returns a QB while the roster's round
\* number is 7 or less, for any pool and roster.
C25_LateQBNoEarlyQB ==
    (/\ call.op = "strategy" /\ call.copy = "browser" /\ call.name = "late_qb"
     /\ get_round_number(team_roster) <= 7)
    => "QB" \notin PositionOfId(call.result)

\* C30: the browser's Zero-RB never returns an RB while the roster's round
\* number is 5 or less, whenever a draftable WR and a draftable TE are both
\* in the pool.
C30_ZeroRBNoEarlyRB ==
    (/\ call.op = "strategy" /\ call.copy = "browser" /\ call.name = "zero_rb"
     /\ get_round_number(team_roster) <= 5
     /\ DraftableAt("WR") # {}
     /\ DraftableAt("TE") # {})
    => "RB" \notin PositionOfId(call.result)

\* a Zero-RB call in rounds 4-5 passed over a draftable RB ranked ahead of
\* every WR and TE of the pool and returned a WR or a TE
C30_Witness ==
    /\ call.op = "strategy" /\ call.copy = "browser" /\ call.name = "zero_rb"
    /\ get_round_number(team_roster) \in 4..5
    /\ DraftableAt("WR") # {}
    /\ DraftableAt("TE") # {}
    /\ \E i \in DraftableAt("RB") :
          \A j \in DraftableAt("WR") \cup DraftableAt("TE") :
              available_players[i].rank < available_players[j].rank
    /\ PositionOfId(call.result) \subseteq {"WR", "TE"}
    /\ PositionOfId(call.result) # {}

\* with three WRs already held in round 4 or 5, Zero-RB took a TE and not the
\* better-ranked draftable RB
C30_WitnessTE ==
    /\ C30_Witness
    /\ count_position(team_roster, "WR") >= 3
    /\ PositionOfId(call.result) = {"TE"}

\* the roster has exactly two empty slots, holds no DST and no K, both can
\* still be filled, and the pool offers both
TwoSlotsLeftForDstK ==
    /\ EmptySlots(team_roster) = 2
    /\ count_position(team_roster, "DST") = 0
    /\ count_position(team_roster, "K") = 0
    /\ can_fill_position(team_roster, "DST")
    /\ can_fill_position(team_roster, "K")
    /\ \E i, j \in DOMAIN available_players :
          /\ available_players[i].position = "DST"
          /\ available_players[j].position = "K"

\* the strategy's pick followed by the simulator's slot assignment, and the
\* same strategy's next pick on what is left
SecondPick(copy, name, first_pick) ==
    LET rest == without_player(available_players, first_pick)
        roster == add_player_to_roster(team_roster, player_of(available_players, first_pick))
    IN  IF copy = "browser" THEN {strategy_call(name, rest, roster)}
        ELSE Api_strategy_call(name, rest, roster)

RosterAfterTwoPicks(first_pick, second_pick) ==
    add_player_to_roster(
        add_player_to_roster(team_roster, player_of(available_players, first_pick)),
        player_of(available_players, second_pick))

\* C21 (as claimed): from a roster with exactly two empty slots, no DST and no
\* K, both fillable and both available, two successive picks of any strategy
\* at variability 0, each followed by the simulator's slot assignment, select
\* a DST first and a K second and leave the roster completely filled.
C21_DstThenK ==
    (call.op = "strategy" /\ TwoSlotsLeftForDstK)
    => /\ PositionOfId(call.result) = {"DST"}
       /\ \A second_pick \in SecondPick(call.copy, call.name, call.result) :
             /\ PositionOfId(second_pick) = {"K"}
             /\ EmptySlots(RosterAfterTwoPicks(call.result, second_pick)) = 0

\* C21 for the browser's strategies alone
C21_DstThenKBrowser ==
    (call.op = "strategy" /\ call.copy = "browser") => C21_DstThenK

\* the rosters the run holds before a step: the ones handed in until the loop
\* is entered
RostersBefore == IF sim.pc = "idle" THEN teams_data ELSE sim.team_rosters

\* the slot type admits the player's position
Compatible(slot_position, player_position) ==
    \/ slot_position = player_position
    \/ slot_position = "FLEX" /\ player_position \in {"RB", "WR", "TE"}
    \/ slot_position = "BENCH"

\* C22: throughout a simulation run every roster keeps the slots it was
\* created with (so the number of slots of each position type is fixed), a
\* filled slot is never emptied and never changes its player, and every slot
\* the simulator fills holds a player compatible with the slot type (same
\* position, RB/WR/TE in FLEX, anyone in BENCH).
C22_RosterSlotsStable ==
    [][sim'.pc # "idle" =>
        /\ DOMAIN sim'.team_rosters = DOMAIN RostersBefore
        /\ \A t \in DOMAIN RostersBefore :
             /\ Len(sim'.team_rosters[t]) = Len(RostersBefore[t])
             /\ \A i \in DOMAIN RostersBefore[t] :
                  LET before == RostersBefore[t][i]
                      after == sim'.team_rosters[t][i]
                  IN  /\ after.position = before.position
                      /\ before.is_filled => after = before
                      /\ (~before.is_filled /\ after.is_filled)
                            => Compatible(after.position, after.player.position)]_vars

\* the simulator has filled a BENCH slot and a slot of the player's own
\* position during the run
C22_Witness ==
    /\ sim.pc # "idle"
    /\ \E t \in DOMAIN sim.team_rosters :
         \E i, j \in DOMAIN sim.team_rosters[t] :
            /\ sim.team_rosters[t][i].is_filled /\ ~teams_data[t][i].is_filled
            /\ sim.team_rosters[t][i].position = "BENCH"
            /\ sim.team_rosters[t][j].is_filled /\ ~teams_data[t][j].is_filled
            /\ sim.team_rosters[t][j].position = sim.team_rosters[t][j].player.position

\* the loop body is entered by the step: both stop tests passed and players
\* are left
BodyEntered ==
    /\ sim.pc = "loop"
    /\ sim.picks_simulated < PickCap
    /\ current_team_id # call.my_team_id
    /\ sim.sim_players # <<>>

\* C26: when the strategy drawn for the team on the clock selects no player
\* (the body is entered, nothing is raised, no pick is counted), the run stops
\* at once as a normal result: the scratch pool and every roster are as they
\* were, the caller's list is untouched, the function has returned, and no
\* step follows a return.
C26_NoSelectionStops ==
    [][/\ (BodyEntered /\ sim'.pc # "raised"
              /\ sim'.picks_simulated = sim.picks_simulated)
          => /\ sim'.pc = "returned"
             /\ sim'.sim_players = sim.sim_players
             /\ sim'.team_rosters = sim.team_rosters
             /\ sim'.pick = sim.pick
             /\ available_players' = available_players
       /\ sim.pc # "returned"]_vars

\* a run returned with players left, under the cap, with another team on the
\* clock: its last strategy selected no player
C26_Witness ==
    /\ sim.pc = "returned"
    /\ sim.picks_simulated < PickCap
    /\ sim.picks_simulated > 0
    /\ current_team_id # call.my_team_id
    /\ sim.sim_players # <<>>

\* number of filled slots of a roster
FilledCount(roster) == Cardinality({i \in DOMAIN roster : roster[i].is_filled})

\* C27 (as claimed): every counted simulated pick removes exactly one player
\* from the scratch pool and raises the picking team's filled-slot count by
\* exactly one.
C27_CountedPickFillsSlot ==
    [][(sim.pc = "loop" /\ sim'.pc = "loop"
           /\ sim'.picks_simulated = sim.picks_simulated + 1)
        => /\ Len(sim'.sim_players) = Len(sim.sim_players) - 1
           /\ FilledCount(sim'.team_rosters[current_team_id])
                 = FilledCount(sim.team_rosters[current_team_id]) + 1]_vars

\* C28 (as claimed): in every state of a simulation run that starts from
\* rosters holding at most two QBs, whatever the per-team variability, no
\* roster holds more than two QBs.
C28_AtMostTwoQBs ==
    (/\ sim.pc # "idle"
     /\ \A t \in DOMAIN teams_data : count_position(teams_data[t], "QB") <= 2)
    => \A t \in DOMAIN sim.team_rosters :
          count_position(sim.team_rosters[t], "QB") <= 2

\* C28 for the browser copy alone
C28_AtMostTwoQBsBrowser == (call.op # "init" /\ call.copy = "browser") => C28_AtMostTwoQBs

\* the team on the clock at pick q of the run's draft
TeamAt(q) ==
    IF call.copy = "browser"
    THEN get_current_team(q, call.num_teams, call.draft_style)
    ELSE Api_get_current_team(q, call.num_teams, call.draft_style)

\* the run returned with players left or none, under the cap, with another
\* team on the clock: the pool was exhausted or a strategy selected no player
EndedByExhaustionOrNoSelection ==
    /\ sim.pc = "returned"
    /\ sim.picks_simulated < PickCap
    /\ current_team_id # call.my_team_id

\* the picks current_pick + 1 .. sim.pick - 1 were simulated, none of them for
\* the caller's team, and the caller's team is on the clock at sim.pick
SimulatedUpToMyTurn ==
    /\ current_team_id = call.my_team_id
    /\ sim.picks_simulated = sim.pick - call.current_pick - 1
    /\ \A q \in (call.current_pick + 1)..(sim.pick - 1) : TeamAt(q) # call.my_team_id

\* C29 (as claimed): for num_teams <= 11 and my_team_id in 1..num_teams, in
\* either draft style, a run that does not end by pool exhaustion or by a
\* none selection simulates exactly the picks from current_pick + 1 up to, but
\* not including, the caller's next pick, never a pick of the caller's team,
\* and the 20-pick cap never cuts it short.
C29_SimulatesUpToMyTurn ==
    (/\ sim.pc \in {"returned", "raised"}
     /\ call.num_teams <= 11
     /\ call.my_team_id \in 1..call.num_teams
     /\ ~EndedByExhaustionOrNoSelection)
    => SimulatedUpToMyTurn

\* C29 for the runs that return: the claim holds when no exception leaves the
\* function
C29_ReturnedRunsUpToMyTurn ==
    sim.pc = "returned" => C29_SimulatesUpToMyTurn

\* the arithmetic behind the cap in C29: in a league of at most 11 teams every
\* team is on the clock again within PickCap + 1 picks after any pick
C29_NextTurnWithinCap ==
    call.op = "get_current_team" =>
        \A n \in 1..11 : \A my_team_id \in 1..n :
            \E q \in (call.pick_number + 1)..(call.pick_number + PickCap + 1) :
                /\ get_current_team(q, n, call.draft_style) = my_team_id
                /\ Api_get_current_team(q, n, call.draft_style) = my_team_id

====
